---- MODULE Spec2Model ----
(***************************************************************************)
(* Model of the InfluxWriter of src/src/influx.rs: a reference-counted     *)
(* handle (InfluxWriter, Clone, Drop) in front of an unbounded mpsc        *)
(* channel of Option<OwnedMeasurement>, and the single consumer thread of  *)
(* with_logger that serializes measurements into a text buffer and POSTs   *)
(* it according to the `next` closure.                                     *)
(*                                                                         *)
(* Text is a sequence of one-character strings.  Option<T> is a sequence   *)
(* of length 0 (None) or 1 (Some).  Time is an abstract clock counted in   *)
(* seconds, shared by Instant::now() and now().  Handles are alike, so the *)
(* model counts how many of them are at each point of their life.  The     *)
(* size threshold (INFLUX_WRITER_MAX_BUFFER, or 0 with the feature         *)
(* no-influx-buffer) is any value of 0..MaxBufferSize, fixed at Init.      *)
(***************************************************************************)
EXTENDS Integers, Sequences, FiniteSets, TLC

(***************************************************************************)
(* Bounds of the model.                                                    *)
(***************************************************************************)
MaxHandles == 2
MaxRaw == 1
MaxSends == 2
MaxClock == 1
MaxBufferSize == 2
MaxStrLen == 3
MaxTags == 2
MaxFields == 2
MaxCalls == 3
MaxEmits == 2
MaxWarnings == 502
MaxLogs == 1
MaxWarningsQueued == 2

(***************************************************************************)
(* Program constants.                                                      *)
(***************************************************************************)
MAX_PENDING == 1
N_WARNINGS == 500

None == << >>
Some(x) == <<x>>

NL == "\n"
QUOTE == "\""
BACKSLASH == "\\"

(***************************************************************************)
(* Text helpers: str::replace, i64::to_string.                             *)
(***************************************************************************)
RECURSIVE replace(_, _, _)
replace(s, from, to) ==
    IF Len(s) < Len(from) THEN s
    ELSE IF SubSeq(s, 1, Len(from)) = from
         THEN to \o replace(SubSeq(s, Len(from) + 1, Len(s)), from, to)
         ELSE <<Head(s)>> \o replace(Tail(s), from, to)

DigitChar(d) == CASE d = 0 -> "0" [] d = 1 -> "1" [] d = 2 -> "2" [] d = 3 -> "3"
                  [] d = 4 -> "4" [] d = 5 -> "5" [] d = 6 -> "6" [] d = 7 -> "7"
                  [] d = 8 -> "8" [] d = 9 -> "9"

RECURSIVE digits(_)
digits(n) == IF n < 10 THEN <<DigitChar(n)>>
             ELSE digits(n \div 10) \o <<DigitChar(n % 10)>>

to_string(n) == IF n < 0 THEN <<"-">> \o digits(-n) ELSE digits(n)

(***************************************************************************)
(* The encoder.                                                            *)
(***************************************************************************)
\* Mutant: double quotes are kept.
escape_tag_keeps_quotes(s) == replace(replace(s, <<" ">>, << >>), <<",">>, << >>)

escape_tag(s) == replace(replace(replace(s, <<" ">>, << >>), <<",">>, << >>), <<QUOTE>>, << >>)

\* Mutant: commas are copied as they are.
escape_spaces_only(s) == replace(s, <<" ">>, <<BACKSLASH, " ">>)

escape(s) == replace(replace(s, <<" ">>, <<BACKSLASH, " ">>), <<",">>, <<BACKSLASH, ",">>)

\* Mutant: the second replace is left out.
as_string_one_replace(s) ==
    <<QUOTE>> \o replace(s, <<QUOTE>>, <<BACKSLASH, QUOTE>>) \o <<QUOTE>>

as_string(s) ==
    <<QUOTE>>
    \o replace(replace(s, <<QUOTE>>, <<BACKSLASH, QUOTE>>),
               <<BACKSLASH, BACKSLASH, QUOTE>>, <<BACKSLASH, QUOTE>>)
    \o <<QUOTE>>

as_integer(i) == to_string(i) \o <<"i">>

\* Mutant: a Boolean is written as a word.
as_boolean_words(b) == IF b THEN <<"t", "r", "u", "e">> ELSE <<"f", "a", "l", "s", "e">>

as_boolean(b) == IF b THEN <<"t">> ELSE <<"f">>

\* A floating point or decimal number: not a number, an infinity, or a finite
\* number given by its sign, its integer part and the digits of its
\* fractional part (none for a whole number).
Finite(neg, int, frac) == [class |-> "finite", neg |-> neg, int |-> int, frac |-> frac]
NaN == [class |-> "nan", neg |-> FALSE, int |-> 0, frac |-> << >>]
Infinity(neg) == [class |-> "infinite", neg |-> neg, int |-> 0, frac |-> << >>]

is_finite(x) == x.class = "finite"

\* The decimal digits of a finite number, as Display writes them: no
\* exponent, no fractional part for a whole number.
plain_decimal(x) ==
    (IF x.neg THEN <<"-">> ELSE << >>) \o digits(x.int)
    \o (IF x.frac = << >> THEN << >> ELSE <<".">> \o x.frac)

\* impl Display for f64 (format!("{}", f), f.to_string()).
f64_to_string(x) ==
    CASE x.class = "nan" -> <<"N", "a", "N">>
      [] x.class = "infinite" -> (IF x.neg THEN <<"-">> ELSE << >>) \o <<"i", "n", "f">>
      [] x.class = "finite" -> plain_decimal(x)

\* impl Display for d128.
d128_to_string(x) ==
    CASE x.class = "nan" -> <<"N", "a", "N">>
      [] x.class = "infinite" ->
            (IF x.neg THEN <<"-">> ELSE << >>) \o <<"I", "n", "f", "i", "n", "i", "t", "y">>
      [] x.class = "finite" -> plain_decimal(x)

as_float(f) == f64_to_string(f)

\* OwnedValue (and influent's Value, which has the variants String, Integer,
\* Float and Boolean): a record with the variant in `variant` and the payload
\* in the field of that variant.
Integer(i) == [variant |-> "Integer", i |-> i, s |-> << >>, b |-> FALSE, f |-> NaN, u |-> << >>]
String(s) == [variant |-> "String", i |-> 0, s |-> s, b |-> FALSE, f |-> NaN, u |-> << >>]
Boolean(b) == [variant |-> "Boolean", i |-> 0, s |-> << >>, b |-> b, f |-> NaN, u |-> << >>]
Float(f) == [variant |-> "Float", i |-> 0, s |-> << >>, b |-> FALSE, f |-> f, u |-> << >>]
D128(d) == [variant |-> "D128", i |-> 0, s |-> << >>, b |-> FALSE, f |-> d, u |-> << >>]
Uuid(u) == [variant |-> "Uuid", i |-> 0, s |-> << >>, b |-> FALSE, f |-> NaN, u |-> u]

\* impl Display for Uuid: the 16 bytes in lowercase hexadecimal, hyphenated
\* 8-4-4-4-12.
HexDigit(n) ==
    <<"0", "1", "2", "3", "4", "5", "6", "7", "8", "9", "a", "b", "c", "d", "e", "f">>[n + 1]

hex_byte(b) == <<HexDigit(b \div 16), HexDigit(b % 16)>>

RECURSIVE hex_bytes(_)
hex_bytes(bytes) == IF bytes = << >> THEN << >> ELSE hex_byte(Head(bytes)) \o hex_bytes(Tail(bytes))

uuid_to_string(u) ==
    hex_bytes(SubSeq(u, 1, 4)) \o <<"-">> \o hex_bytes(SubSeq(u, 5, 6)) \o <<"-">>
    \o hex_bytes(SubSeq(u, 7, 8)) \o <<"-">> \o hex_bytes(SubSeq(u, 9, 10)) \o <<"-">>
    \o hex_bytes(SubSeq(u, 11, 16))

add_tag_line(line, key, value) ==
    line \o <<",">> \o escape_tag(key) \o <<"=">> \o escape(value)

\* Mutant: the first field is separated by a comma like the others.
add_field_line_always_comma(line, key, value, is_first) ==
    line \o <<",">> \o escape_tag(key) \o <<"=">>
         \o (CASE value.variant = "String" -> as_string(value.s)
               [] value.variant = "Integer" -> to_string(value.i) \o <<"i">>
               [] value.variant = "Boolean" -> as_boolean(value.b)
               [] value.variant = "D128" ->
                     IF is_finite(value.f) THEN d128_to_string(value.f) ELSE <<"0", ".", "0">>
               [] value.variant = "Float" ->
                     IF is_finite(value.f) THEN f64_to_string(value.f) ELSE <<"0", ".", "0">>
               [] value.variant = "Uuid" -> <<QUOTE>> \o uuid_to_string(value.u) \o <<QUOTE>>)

add_field_line(line, key, value, is_first) ==
    line \o (IF is_first THEN <<" ">> ELSE <<",">>) \o escape_tag(key) \o <<"=">>
         \o (CASE value.variant = "String" -> as_string(value.s)
               [] value.variant = "Integer" -> to_string(value.i) \o <<"i">>
               [] value.variant = "Boolean" -> as_boolean(value.b)
               [] value.variant = "D128" ->
                     IF is_finite(value.f) THEN d128_to_string(value.f) ELSE <<"0", ".", "0">>
               [] value.variant = "Float" ->
                     IF is_finite(value.f) THEN f64_to_string(value.f) ELSE <<"0", ".", "0">>
               [] value.variant = "Uuid" -> <<QUOTE>> \o uuid_to_string(value.u) \o <<QUOTE>>)

RECURSIVE add_tags(_, _)
add_tags(line, tags) ==
    IF tags = << >> THEN line
    ELSE add_tags(add_tag_line(line, Head(tags)[1], Head(tags)[2]), Tail(tags))

RECURSIVE add_fields(_, _, _)
add_fields(line, fields, is_first) ==
    IF fields = << >> THEN line
    ELSE add_fields(add_field_line(line, Head(fields)[1], Head(fields)[2], is_first),
                    Tail(fields), FALSE)

\* Mutant: the line is written from its start.
serialize_owned_from_start(measurement, line) ==
    LET l1 == escape_tag(measurement.key)
        l2 == add_tags(l1, measurement.tags)
        l3 == add_fields(l2, measurement.fields, TRUE)
    IN  IF measurement.timestamp # None
        THEN l3 \o <<" ">> \o to_string(measurement.timestamp[1])
        ELSE l3

serialize_owned(measurement, line) ==
    LET l1 == line \o escape_tag(measurement.key)
        l2 == add_tags(l1, measurement.tags)
        l3 == add_fields(l2, measurement.fields, TRUE)
    IN  IF measurement.timestamp # None
        THEN l3 \o <<" ">> \o to_string(measurement.timestamp[1])
        ELSE l3

\* serialize, for influent's Measurement: its tags and fields are given in
\* the order the maps iterate.
RECURSIVE serialize_tags(_, _)
serialize_tags(line, tags) ==
    IF tags = << >> THEN line
    ELSE serialize_tags(line \o <<",">> \o escape(Head(tags)[1]) \o <<"=">>
                             \o escape(Head(tags)[2]),
                        Tail(tags))

RECURSIVE serialize_fields(_, _, _)
serialize_fields(line, fields, was_spaced) ==
    IF fields = << >> THEN line
    ELSE LET field == Head(fields)[1]
             value == Head(fields)[2]
         IN  serialize_fields(
                 line \o (IF ~was_spaced THEN <<" ">> ELSE <<",">>) \o escape(field) \o <<"=">>
                      \o (CASE value.variant = "String" -> as_string(value.s)
                            [] value.variant = "Integer" -> as_integer(value.i)
                            [] value.variant = "Float" -> as_float(value.f)
                            [] value.variant = "Boolean" -> as_boolean(value.b)),
                 Tail(fields), TRUE)

serialize(measurement, line) ==
    LET l1 == line \o escape(measurement.key)
        l2 == serialize_tags(l1, measurement.tags)
        l3 == serialize_fields(l2, measurement.fields, FALSE)
    IN  IF measurement.timestamp # None
        THEN l3 \o <<" ">> \o to_string(measurement.timestamp[1])
        ELSE l3

(***************************************************************************)
(* OwnedMeasurement.                                                       *)
(***************************************************************************)
OwnedMeasurement_new(key) ==
    [key |-> key, timestamp |-> None, fields |-> << >>, tags |-> << >>]

add_tag(m, key, value) == [m EXCEPT !.tags = Append(@, <<key, value>>)]

\* Mutant: a field is put in front of the others.
add_field_front(m, key, value) == [m EXCEPT !.fields = <<(<<key, value>>)>> \o @]

add_field(m, key, value) == [m EXCEPT !.fields = Append(@, <<key, value>>)]

set_timestamp(m, timestamp) == [m EXCEPT !.timestamp = Some(timestamp)]

\* self.tags.iter().position(|kv| kv.0 == key): None or Some(index).
position(tags, key) ==
    IF \A i \in 1..Len(tags) : tags[i][1] # key THEN None
    ELSE Some(CHOOSE i \in 1..Len(tags) :
                  tags[i][1] = key /\ \A j \in 1..(i - 1) : tags[j][1] # key)

\* set_tag: at a matching entry x, the closure assigns x.0 = value.
set_tag(m, key, value) ==
    LET p == position(m.tags, key)
    IN  IF p # None
        THEN [m EXCEPT !.tags[p[1]] = <<value, @[2]>>]
        ELSE add_tag(m, key, value)

\* find(|kv| kv.0 == key).map(|kv| kv.1), for get_field and get_tag.
find_value(pairs, key) ==
    LET p == position(pairs, key)
    IN  IF p = None THEN None ELSE Some(pairs[p[1]][2])

get_field(m, key) == find_value(m.fields, key)

get_tag(m, key) == find_value(m.tags, key)

(***************************************************************************)
(* The log adapter: MeasurementRecord and its two slog serializers.  Keys  *)
(* are only compared, and are strings here.                                *)
(***************************************************************************)
ReservedTagNames == {"exchange", "thread", "ticker", "category"}

MeasurementRecord_new == [fields |-> << >>, tags |-> << >>]

MeasurementRecord_add_field(r, key, val) == [r EXCEPT !.fields = Append(@, <<key, val>>)]

\* Mutant: every key is accepted as a tag.
MeasurementRecord_add_tag_any(r, key, val) == [r EXCEPT !.tags = Append(@, <<key, val>>)]

MeasurementRecord_add_tag(r, key, val) ==
    IF key \in ReservedTagNames
    THEN [r EXCEPT !.tags = Append(@, <<key, val>>)]
    ELSE MeasurementRecord_add_field(r, key, String(val))

\* A value handed to a slog::Serializer: the emit_* method it arrives at
\* and its payload.
Emitted(type, i, t, b) == [type |-> type, i |-> i, s |-> t, b |-> b]

\* format_args!("{}", val), as the default emit_* methods of
\* slog::Serializer pass a value on to emit_arguments.
Display(v) ==
    CASE v.type = "str" -> v.s
      [] v.type = "i64" -> to_string(v.i)
      [] v.type = "bool" -> (IF v.b THEN <<"t", "r", "u", "e">> ELSE <<"f", "a", "l", "s", "e">>)
      [] v.type = "none" -> << >>

\* impl slog::Serializer for MeasurementRecord: every method adds a field,
\* emit_none adds nothing.
MeasurementRecord_emit(r, key, v) ==
    CASE v.type = "str" -> MeasurementRecord_add_field(r, key, String(v.s))
      [] v.type = "i64" -> MeasurementRecord_add_field(r, key, Integer(v.i))
      [] v.type = "bool" -> MeasurementRecord_add_field(r, key, Boolean(v.b))
      [] v.type = "none" -> r

\* emit_str and emit_arguments of TagBuilder.
TagBuilder_emit_arguments(r, key, val) ==
    IF key \in ReservedTagNames
    THEN MeasurementRecord_add_tag(r, key, val)
    ELSE MeasurementRecord_add_field(r, key, String(val))

\* impl slog::Serializer for TagBuilder: emit_str and emit_arguments are
\* written out, every other method is the trait's default, which formats
\* the value and calls emit_arguments.
TagBuilder_emit(r, key, v) == TagBuilder_emit_arguments(r, key, Display(v))

\* The termination marker built in the Ok(None) arm.
wtrterm == add_field(OwnedMeasurement_new(<<"w", "t", "r", "t", "e", "r", "m">>),
                     <<"n">>, Integer(1))

\* The measurement the producers submit as the n-th send on the channel: it
\* carries n in the tag `seq`, so that its line can be recognised in a POST
\* body.  Odd ones have neither fields nor timestamp, even ones have both.
Measurements(n) ==
    IF n % 2 = 1
    THEN { add_tag(OwnedMeasurement_new(<<"a">>), <<"s", "e", "q">>, to_string(n)) }
    ELSE { set_timestamp(add_field(add_tag(OwnedMeasurement_new(<<"b">>),
                                           <<"s", "e", "q">>, to_string(n)),
                                   <<"x">>, Integer(2)), 0) }

Messages(n) == {Some(m) : m \in Measurements(n)} \cup {None}

(***************************************************************************)
(* State.                                                                  *)
(***************************************************************************)
VARIABLES
    handles,      \* how many handles are in each of HandleStates (handles are alike)
    strong,       \* strong count of the Arc<JoinHandle>
    senders,      \* number of Sender clones alive (handles' tx and tx() clones)
    raw,          \* number of Senders obtained from tx() that are alive
    detached,     \* the JoinHandle was dropped without a join
    queue,        \* the channel: messages sent and not yet received
    buffer_size,  \* `buffer_size` of with_logger
    pc,           \* position of the consumer thread
    buf, count, last, loop_time,   \* locals of the consumer thread
    post_kind,    \* which call of `send` is in flight: "next", "term", "defensive", or "none"
    resp,         \* outcome of the last POST that returned
    clock,        \* current time
    \* history variables
    posts,        \* the POSTs issued so far, in order
    sendLog,      \* one record per send attempt on the channel by a producer
    dequeued,     \* ids of the measurements received by the consumer, in order
    nsignals,     \* number of None values enqueued so far
    drop_signals, \* number of None values sent by Drop
    term_buf,     \* contents of buf when the consumer received None
    \* the argument of new / with_logger
    requested_size, \* `_buffer_size`, the size the writer was constructed with
    threads,      \* number of consumer threads spawned for the writer
    \* one call of a function of the encoder or of OwnedMeasurement
    enc_op,       \* the function called, "none" before the call
    enc_in,       \* its arguments
    enc_out,      \* what it returned (or left in `line`)
    \* the WarningsManager
    warnings,     \* the history: Arc<RwLock<VecDeque<Record>>>, front first
    warnings_rx,  \* the channel of Warning values: sent and not yet received
    warnings_sent,\* how many warnings of each kind were queued so far
    warnings_pc,  \* position of the worker thread: "loop" or "done"
    socket        \* the warning last sent on the zmq socket, None before the first

vars == <<handles, strong, senders, raw, detached, queue, buffer_size, pc, buf, count,
          last, loop_time, post_kind, resp, clock, posts, sendLog, dequeued,
          nsignals, drop_signals, term_buf, requested_size, threads, enc_op, enc_in,
          enc_out, warnings, warnings_rx, warnings_sent, warnings_pc, socket>>

enc_vars == <<enc_op, enc_in, enc_out>>

manager_vars == <<warnings, warnings_rx, warnings_sent, warnings_pc, socket>>

\* What no step of the writer changes: the threshold, the argument of the
\* constructor, the call of the encoder, and the WarningsManager.
static_vars == <<buffer_size, requested_size, threads, enc_vars, manager_vars>>

\* Everything but the call of the encoder.
writer_vars == <<handles, strong, senders, raw, detached, queue, buffer_size, pc, buf, count,
                 last, loop_time, post_kind, resp, clock, posts, sendLog, dequeued,
                 nsignals, drop_signals, term_buf, requested_size, threads, manager_vars>>

\* Everything but the WarningsManager.
outside_manager == <<handles, strong, senders, raw, detached, queue, buffer_size, pc, buf,
                     count, last, loop_time, post_kind, resp, clock, posts, sendLog, dequeued,
                     nsignals, drop_signals, term_buf, requested_size, threads, enc_vars>>

handle_vars == <<handles, strong, senders, raw, detached>>
consumer_vars == <<pc, buf, count, last, loop_time, post_kind, resp, posts,
                   dequeued, term_buf>>

\* A handle is Live from its creation to its drop; in Drop it is Unwrapped
\* (try_unwrap gave the JoinHandle), then Joining (None sent), or Shared
\* (try_unwrap gave the Arc back); it ends Released.
HandleStates == {"Live", "Unwrapped", "Joining", "Shared", "Released"}

Created == handles["Live"] + handles["Unwrapped"] + handles["Joining"] + handles["Shared"]
           + handles["Released"]

Move(from, to) == [handles EXCEPT ![from] = @ - 1, ![to] = @ + 1]
Responses == {"NoContent", "ServerError", "TransportError"}

\* The Receiver lives in the thread's closure: it is dropped when the thread
\* leaves the loop.
rx_alive == pc # "done"

(***************************************************************************)
(* The channel.                                                            *)
(***************************************************************************)
\* Mutant: a bounded channel (sync_channel(1)), whose send waits for room.
channel_has_room_bounded(q) == Len(q) < 1

\* channel() is unbounded: a send never waits for room.
channel_has_room(q) == TRUE

\* Mutant: a send that never reports the disconnection.
Sender_send_always_ok(alive) == TRUE

\* Sender::send is Ok exactly while the Receiver has not been dropped.
Sender_send(alive) == alive

\* Mutant: a receive that takes the newest message.
recv_index_newest(q) == Len(q)

\* Receiver::recv takes the oldest message.
recv_index(q) == 1

RemoveAt(q, i) == SubSeq(q, 1, i - 1) \o SubSeq(q, i + 1, Len(q))

(***************************************************************************)
(* Init: the state when with_logger returns the first handle.              *)
(***************************************************************************)
\* The sizes the writer is constructed with (the argument `buffer_size` of
\* new, `_buffer_size` of with_logger).
RequestedSizes == {1}

\* `buffer_size` of with_logger: INFLUX_WRITER_MAX_BUFFER, or 0 under the
\* feature no-influx-buffer, here any value up to MaxBufferSize.  The
\* argument `_buffer_size` is not read.
with_logger_buffer_size(_buffer_size) == 0..MaxBufferSize

Init ==
    /\ handles = [st \in HandleStates |-> IF st = "Live" THEN 1 ELSE 0]
    /\ strong = 1
    /\ senders = 1
    /\ raw = 0
    /\ detached = FALSE
    /\ queue = << >>
    /\ requested_size \in RequestedSizes
    /\ buffer_size \in with_logger_buffer_size(requested_size)
    /\ pc = "init"
    /\ buf = << >>
    /\ count = 0
    /\ last = 0
    /\ loop_time = 0
    /\ post_kind = "none"
    /\ resp = "NoContent"
    /\ clock = 0
    /\ posts = << >>
    /\ sendLog = << >>
    /\ dequeued = << >>
    /\ nsignals = 0
    /\ drop_signals = 0
    /\ term_buf = None
    /\ threads = 1
    /\ enc_op = "none"
    /\ enc_in = << >>
    /\ enc_out = << >>
    /\ warnings = << >>
    /\ warnings_rx = << >>
    /\ warnings_sent = [other |-> 0, log |-> 0, terminate |-> 0]
    /\ warnings_pc = "loop"
    /\ socket = None

(***************************************************************************)
(* Producers.                                                              *)
(***************************************************************************)
\* One send on a Sender of the channel: msg is Some(m) or None.
channel_send(msg) ==
    LET ok == Sender_send(rx_alive)
        id == Len(sendLog) + 1
    IN  /\ Len(sendLog) < MaxSends
        /\ channel_has_room(queue)
        /\ sendLog' = Append(sendLog, [ok |-> ok, alive |-> rx_alive, some |-> msg # None,
                                       presig |-> nsignals = 0,
                                       afterdrop |-> drop_signals > 0])
        /\ queue' = IF ok THEN Append(queue, [id |-> IF msg = None THEN 0 ELSE id, m |-> msg])
                    ELSE queue
        /\ nsignals' = IF ok /\ msg = None THEN nsignals + 1 ELSE nsignals

\* InfluxWriter::send
InfluxWriter_send(m) ==
    /\ handles["Live"] > 0
    /\ m \in Measurements(Len(sendLog) + 1)
    /\ channel_send(Some(m))
    /\ UNCHANGED <<handle_vars, static_vars, consumer_vars, clock, drop_signals>>

\* InfluxWriter::tx
InfluxWriter_tx ==
    /\ handles["Live"] > 0
    /\ raw < MaxRaw
    /\ raw' = raw + 1
    /\ senders' = senders + 1
    /\ UNCHANGED <<handles, strong, detached, queue, static_vars, consumer_vars, clock,
                   sendLog, nsignals, drop_signals>>

\* A send through a Sender obtained from tx(): a measurement or None.
RawSend(msg) ==
    /\ raw > 0
    /\ msg \in Messages(Len(sendLog) + 1)
    /\ channel_send(msg)
    /\ UNCHANGED <<handle_vars, static_vars, consumer_vars, clock, drop_signals>>

\* A Sender obtained from tx() is dropped.
RawDrop ==
    /\ raw > 0
    /\ raw' = raw - 1
    /\ senders' = senders - 1
    /\ UNCHANGED <<handles, strong, detached, queue, static_vars, consumer_vars, clock,
                   sendLog, nsignals, drop_signals>>

(***************************************************************************)
(* Handles: Clone and Drop.                                                *)
(***************************************************************************)
\* Mutant: a clone starts a consumer thread of its own.
Clone_spawned_one == {"mm:inflx"}

\* The threads Clone spawns: it clones host, db, the Sender and the Arc of
\* the JoinHandle, and calls nothing else.
Clone_spawned == {}

Clone ==
    /\ handles["Live"] > 0
    /\ Created < MaxHandles
    /\ handles' = [handles EXCEPT !["Live"] = @ + 1]
    /\ strong' = strong + 1
    /\ senders' = senders + 1
    /\ threads' = threads + Cardinality(Clone_spawned)
    /\ UNCHANGED <<raw, detached, queue, buffer_size, requested_size, enc_vars, manager_vars,
                   consumer_vars, clock, sendLog, nsignals, drop_signals>>

\* Mutant: try_unwrap gives the JoinHandle whatever the strong count is.
try_unwrap_always(n) == TRUE

\* Arc::try_unwrap succeeds exactly when this is the only strong reference.
try_unwrap(n) == n = 1

\* Drop, first step: self.thread.take() and Arc::try_unwrap(arc).
DropTryUnwrap ==
    /\ handles["Live"] > 0
    /\ IF try_unwrap(strong)
       THEN /\ handles' = Move("Live", "Unwrapped")
            /\ strong' = 0
       ELSE /\ handles' = Move("Live", "Shared")
            /\ strong' = strong
    /\ UNCHANGED <<senders, raw, detached, queue, static_vars, consumer_vars, clock,
                   sendLog, nsignals, drop_signals>>

\* Drop, Ok branch: let _ = self.tx.send(None).
DropSendNone ==
    /\ handles["Unwrapped"] > 0
    /\ handles' = Move("Unwrapped", "Joining")
    /\ queue' = IF Sender_send(rx_alive) THEN Append(queue, [id |-> 0, m |-> None]) ELSE queue
    /\ nsignals' = IF Sender_send(rx_alive) THEN nsignals + 1 ELSE nsignals
    /\ drop_signals' = drop_signals + 1
    /\ UNCHANGED <<strong, senders, raw, detached, static_vars, consumer_vars, clock, sendLog>>

\* Drop, Ok branch: thread.join() returns once the thread has finished; then
\* the fields (the handle's Sender) are dropped.
DropJoin ==
    /\ handles["Joining"] > 0
    /\ pc = "done"
    /\ handles' = Move("Joining", "Released")
    /\ senders' = senders - 1
    /\ UNCHANGED <<strong, raw, detached, queue, static_vars, consumer_vars, clock, sendLog,
                   nsignals, drop_signals>>

\* Drop, Err branch: the Arc handed back by try_unwrap is dropped (the
\* JoinHandle with it when it was the last one), then the fields.
DropShared ==
    /\ handles["Shared"] > 0
    /\ handles' = Move("Shared", "Released")
    /\ strong' = strong - 1
    /\ detached' = (detached \/ strong = 1)
    /\ senders' = senders - 1
    /\ UNCHANGED <<raw, queue, static_vars, consumer_vars, clock, sendLog, nsignals,
                   drop_signals>>

(***************************************************************************)
(* The consumer thread of with_logger.                                     *)
(***************************************************************************)
\* Mutant: the batch is sent one item early.
next_arm_early(prev, lt, la) ==
    IF prev = 0 /\ buffer_size > 0 THEN 1
    ELSE IF prev + 1 < buffer_size /\ lt - la < MAX_PENDING THEN 2
    ELSE 3

\* Mutant: the elapsed time is not looked at.
next_arm_no_timer(prev, lt, la) ==
    IF prev = 0 /\ buffer_size > 0 THEN 1
    ELSE IF prev < buffer_size THEN 2
    ELSE 3

\* Mutant: the first item of a batch is sent at once when time has elapsed.
next_arm_first_timed(prev, lt, la) ==
    IF prev = 0 /\ buffer_size > 0 /\ lt - la < MAX_PENDING THEN 1
    ELSE IF prev < buffer_size /\ lt - la < MAX_PENDING THEN 2
    ELSE 3

\* Mutant: the size test lets one more item in.
next_arm_inclusive(prev, lt, la) ==
    IF prev = 0 /\ buffer_size > 0 THEN 1
    ELSE IF prev <= buffer_size /\ lt - la < MAX_PENDING THEN 2
    ELSE 3

\* The arm of the match in the `next` closure: 1 starts a batch, 2 appends,
\* 3 appends and sends.
next_arm(prev, lt, la) ==
    IF prev = 0 /\ buffer_size > 0 THEN 1
    ELSE IF prev < buffer_size /\ lt - la < MAX_PENDING THEN 2
    ELSE 3

\* Mutant: the sending arm sends before it appends the item.
next_buf_send_first(prev, m, b, lt, la) ==
    IF next_arm(prev, lt, la) = 1 THEN serialize_owned(m, b)
    ELSE IF next_arm(prev, lt, la) = 2 THEN serialize_owned(m, b \o <<NL>>)
    ELSE b

\* Mutant: the new line is put in front of the buffer.
next_buf_prepends(prev, m, b, lt, la) ==
    IF next_arm(prev, lt, la) = 1 THEN serialize_owned(m, b)
    ELSE serialize_owned(m, << >>) \o <<NL>> \o b

\* Mutant: every line is followed by a newline instead of separated by one.
next_buf_terminates(prev, m, b, lt, la) == serialize_owned(m, b) \o <<NL>>

\* What the `next` closure leaves in the buffer before any send.
next_buf(prev, m, b, lt, la) ==
    IF next_arm(prev, lt, la) = 1 THEN serialize_owned(m, b)
    ELSE serialize_owned(m, b \o <<NL>>)

\* Mutant: the appending arm returns the count it was given.
next_count_keeps(prev, lt, la) ==
    CASE next_arm(prev, lt, la) = 1 -> 1
      [] next_arm(prev, lt, la) = 2 -> prev
      [] next_arm(prev, lt, la) = 3 -> 0

\* The count the `next` closure returns.
next_count(prev, lt, la) ==
    CASE next_arm(prev, lt, la) = 1 -> 1
      [] next_arm(prev, lt, la) = 2 -> prev + 1
      [] next_arm(prev, lt, la) = 3 -> 0

\* The body handed to client.post by the `send` closure.
send(b) == b

\* Mutant: the closure unwraps the response and panics on a transport error.
send_returns_unless_err(r) == r # "TransportError"

\* The match of the `send` closure on the outcome of the POST: every arm
\* (204, another status, Err) logs and returns to the caller.
send_returns(r) == r \in Responses

\* Mutant: the buffer is not cleared.
clear_keeps(b) == b

\* String::clear
clear(b) == << >>

\* Mutant: the stamp is the time sampled at the top of the loop, before recv.
now_at_loop_top == loop_time

\* now(): the wall clock, read when it is called.
now == clock

\* Mutant: a measurement with fields is given the default field too.
prepare_always_default(meas, t) ==
    LET stamped == IF meas.timestamp = None THEN [meas EXCEPT !.timestamp = Some(t)] ELSE meas
    IN  [stamped EXCEPT !.fields = Append(@, <<(<<"n">>), Integer(1)>>)]

\* Mutant: a measurement without a timestamp is left without one.
prepare_unstamped(meas, t) ==
    IF meas.fields = << >>
    THEN [meas EXCEPT !.fields = Append(@, <<(<<"n">>), Integer(1)>>)]
    ELSE meas

\* The Ok(Some(meas)) arm up to the call of next: stamp, default field.
prepare(meas, t) ==
    LET stamped == IF meas.timestamp = None THEN [meas EXCEPT !.timestamp = Some(t)] ELSE meas
    IN  IF stamped.fields = << >>
        THEN [stamped EXCEPT !.fields = Append(@, <<(<<"n">>), Integer(1)>>)]
        ELSE stamped

\* Mutant: the marker is sent whether lines remain or not.
has_remaining_always(b) == TRUE

\* The test `buf.len() > 0` of the Ok(None) arm.
has_remaining(b) == Len(b) > 0

\* Mutant: the thread goes back to the top of its loop after the signal.
after_terminate_loops == "top"

\* The `break` that ends the Ok(None) arm: the thread leaves the loop.
after_terminate == "done"

\* Mutant: the POST is started and the thread goes on without its outcome.
in_send_detached == "top"

\* client.post(..).body(buf).send() is a blocking call: the thread is inside
\* it until the outcome is there.
in_send == "post"

\* Mutant: the time of a flush is read from the clock when the POST returns.
flushed_at_now == clock

\* `*last = *loop_time` of the sending arm: the time the loop sampled.
flushed_at == loop_time

\* The record of one POST: its body, the call of `send` that made it, and the
\* loop_time - last that the `next` closure saw.
Post(body, kind, lt, la) == [body |-> send(body), kind |-> kind, elapsed |-> lt - la]

\* The thread starts: buffers and timers are initialised.
ThreadStart ==
    /\ pc = "init"
    /\ pc' = "top"
    /\ buf' = << >>
    /\ count' = 0
    /\ last' = clock
    /\ loop_time' = clock
    /\ UNCHANGED <<handle_vars, queue, static_vars, post_kind, resp, clock, posts,
                   sendLog, dequeued, nsignals, drop_signals, term_buf>>

\* Top of the loop: loop_time = Instant::now(), then rx.recv() is entered.
LoopTop ==
    /\ pc = "top"
    /\ pc' = "recv"
    /\ loop_time' = clock
    /\ UNCHANGED <<handle_vars, queue, static_vars, buf, count, last, post_kind, resp, clock,
                   posts, sendLog, dequeued, nsignals, drop_signals, term_buf>>

\* rx.recv() returns Ok(Some(meas)).
RecvSome ==
    /\ pc = "recv"
    /\ queue # << >>
    /\ LET i == recv_index(queue)
           msg == queue[i]
       IN  /\ msg.m # None
           /\ queue' = RemoveAt(queue, i)
           /\ dequeued' = Append(dequeued, msg.id)
           /\ LET meas == prepare(msg.m[1], now)
                  arm == next_arm(count, loop_time, last)
              IN  /\ buf' = next_buf(count, meas, buf, loop_time, last)
                  /\ IF arm = 3
                     THEN /\ pc' = in_send
                          /\ post_kind' = "next"
                          /\ posts' = Append(posts, Post(buf', "next", loop_time, last))
                          /\ count' = count
                     ELSE /\ pc' = "top"
                          /\ post_kind' = post_kind
                          /\ posts' = posts
                          /\ count' = next_count(count, loop_time, last)
    /\ UNCHANGED <<handle_vars, static_vars, last, loop_time, resp, clock, sendLog, nsignals,
                   drop_signals, term_buf>>

\* rx.recv() returns Ok(None).
RecvNone ==
    /\ pc = "recv"
    /\ queue # << >>
    /\ LET i == recv_index(queue)
           msg == queue[i]
       IN  /\ msg.m = None
           /\ queue' = RemoveAt(queue, i)
           /\ term_buf' = Some(buf)
           /\ IF has_remaining(buf)
              THEN LET arm == next_arm(buffer_size, loop_time, last)
                   IN  /\ buf' = next_buf(buffer_size, wtrterm, buf, loop_time, last)
                       /\ pc' = "post"
                       /\ IF arm = 3
                          THEN /\ post_kind' = "term"
                               /\ posts' = Append(posts, Post(buf', "term", loop_time, last))
                               /\ count' = count
                          ELSE \* next did not send: the buffer is not empty, send(&buf)
                               /\ post_kind' = "defensive"
                               /\ posts' = Append(posts, Post(buf', "defensive", loop_time, last))
                               /\ count' = next_count(buffer_size, loop_time, last)
              ELSE /\ pc' = after_terminate
                   /\ UNCHANGED <<buf, post_kind, posts, count>>
    /\ UNCHANGED <<handle_vars, static_vars, last, loop_time, resp, clock, sendLog, dequeued,
                   nsignals, drop_signals>>

\* rx.recv() returns Err: every Sender is gone and the channel is empty.  The
\* thread sleeps and loops.
RecvErr ==
    /\ pc = "recv"
    /\ queue = << >>
    /\ senders = 0
    /\ pc' = "top"
    /\ UNCHANGED <<handle_vars, queue, static_vars, buf, count, last, loop_time, post_kind,
                   resp, clock, posts, sendLog, dequeued, nsignals, drop_signals,
                   term_buf>>

\* client.post(..).send() returns, with any outcome; the caller of `send`
\* goes on.
PostReturn ==
    /\ pc = "post"
    /\ \E r \in Responses : resp' = r
    /\ IF post_kind = "defensive" \/ ~send_returns(resp')
       THEN \* the thread leaves its loop (or unwinds): the Receiver is dropped
            /\ pc' = IF send_returns(resp') THEN after_terminate ELSE "done"
            /\ post_kind' = "none"
            /\ UNCHANGED <<buf, count, last, posts>>
       ELSE /\ last' = flushed_at
            /\ buf' = clear(buf)
            /\ count' = 0
            /\ IF post_kind = "next"
               THEN /\ pc' = "top"
                    /\ post_kind' = "none"
                    /\ posts' = posts
               ELSE IF Len(buf') > 0
                    THEN /\ pc' = "post"
                         /\ post_kind' = "defensive"
                         /\ posts' = Append(posts, Post(buf', "defensive", loop_time, last))
                    ELSE /\ pc' = after_terminate
                         /\ post_kind' = "none"
                         /\ posts' = posts
    /\ UNCHANGED <<handle_vars, queue, static_vars, loop_time, clock, sendLog, dequeued,
                   nsignals, drop_signals, term_buf>>

\* Time passes.
Tick ==
    /\ clock < MaxClock
    /\ clock' = clock + 1
    /\ UNCHANGED <<handle_vars, queue, static_vars, consumer_vars, sendLog, nsignals,
                   drop_signals>>

(***************************************************************************)
(* Specifications.                                                         *)
(***************************************************************************)
Consumer == ThreadStart \/ LoopTop \/ RecvSome \/ RecvNone \/ RecvErr \/ PostReturn

Next ==
    \/ \E m \in Measurements(Len(sendLog) + 1) : InfluxWriter_send(m)
    \/ InfluxWriter_tx
    \/ \E msg \in Messages(Len(sendLog) + 1) : RawSend(msg)
    \/ RawDrop
    \/ Clone
    \/ DropTryUnwrap
    \/ DropSendNone
    \/ DropJoin
    \/ DropShared
    \/ ThreadStart
    \/ LoopTop
    \/ RecvSome
    \/ RecvNone
    \/ RecvErr
    \/ PostReturn
    \/ Tick

Spec == Init /\ [][Next]_vars

(***************************************************************************)
(* The functions of the encoder and of OwnedMeasurement, each called once  *)
(* on arguments drawn from bounded sets.  No writer runs.                  *)
(***************************************************************************)
Chars == {"a", " ", ",", QUOTE, BACKSLASH}

\* The texts of at most n characters.
Strings(n) == UNION {[1..k -> Chars] : k \in 0..n}

\* The sequences of at most n elements of S.
SeqsUpTo(S, n) == UNION {[1..k -> S] : k \in 0..n}

\* Measurements with tags only, for set_tag and get_tag.
TagKeys == {<<"a">>, <<"b">>}
TagValues == {<<"x">>, <<"y">>}
TaggedMeasurements ==
    {[OwnedMeasurement_new(<<"m">>) EXCEPT !.tags = tags] :
        tags \in SeqsUpTo(TagKeys \X TagValues, MaxTags)}

\* Measurements for the serializers.
EncKeys == {<<"m">>, <<"m", " ", "k">>}
EncTags == {<<(<<"a">>), (<<"b">>)>>, <<(<<"t", ",">>), (<<"y", " ", "z">>)>>}
LegacyValues ==
    {Integer(1), String(<<"s", QUOTE>>),
     Float(Finite(FALSE, 1, << >>)), Float(Finite(TRUE, 1, <<"1">>)),
     Float(NaN), Float(Infinity(FALSE))}
OwnedValues == LegacyValues \cup {D128(NaN), D128(Finite(FALSE, 1, <<"1", "0">>))}
EncTimestamps == {None, Some(12)}

MeasurementsOf(values) ==
    {[key |-> key, timestamp |-> timestamp, fields |-> fields, tags |-> tags] :
        key \in EncKeys, timestamp \in EncTimestamps,
        fields \in SeqsUpTo({<<"c">>} \X values, MaxFields),
        tags \in SeqsUpTo(EncTags, MaxTags)}

\* The measurement of the test it_serializes_a_measurement_in_place.
RustTest ==
    [key |-> <<"r", "u", "s", "t", "_", "t", "e", "s", "t">>, timestamp |-> Some(12),
     fields |-> <<(<<(<<"c">>), Float(Finite(FALSE, 1, << >>))>>)>>,
     tags |-> <<(<<(<<"a">>), (<<"b">>)>>)>>]

\* Each action is one call, recorded with its arguments and its result.
Apply_as_string ==
    /\ enc_op = "none"
    /\ \E s \in Strings(MaxStrLen) :
          /\ enc_op' = "as_string"
          /\ enc_in' = s
          /\ enc_out' = as_string(s)
    /\ UNCHANGED writer_vars

Apply_escape_tag ==
    /\ enc_op = "none"
    /\ \E s \in Strings(MaxStrLen) :
          /\ enc_op' = "escape_tag"
          /\ enc_in' = s
          /\ enc_out' = escape_tag(s)
    /\ UNCHANGED writer_vars

Apply_escape ==
    /\ enc_op = "none"
    /\ \E s \in Strings(MaxStrLen) :
          /\ enc_op' = "escape"
          /\ enc_in' = s
          /\ enc_out' = escape(s)
    /\ UNCHANGED writer_vars

\* Field values of every variant, and the places a field is written at.
Uuids ==
    {[k \in 1..16 |-> 0], [k \in 1..16 |-> 255],
     <<18, 62, 69, 103, 232, 155, 18, 211, 164, 86, 66, 102, 20, 23, 64, 0>>}
FieldValues ==
    {Integer(i) : i \in {-12, 0, 7, 105}} \cup {Boolean(b) : b \in BOOLEAN}
    \cup {String(t) : t \in Strings(MaxStrLen)} \cup {Uuid(u) : u \in Uuids}
    \cup {Float(Finite(TRUE, 1, <<"5">>)), D128(Infinity(TRUE))}
FieldLines == {<< >>, <<"m">>}
FieldKeys == {<<"c">>, <<"k", " ">>}

\* A call of the add_field closure of serialize_owned.
Apply_add_field ==
    /\ enc_op = "none"
    /\ \E line \in FieldLines, key \in FieldKeys, value \in FieldValues, is_first \in BOOLEAN :
          /\ enc_op' = "add_field"
          /\ enc_in' = [line |-> line, key |-> key, value |-> value, is_first |-> is_first]
          /\ enc_out' = add_field_line(line, key, value, is_first)
    /\ UNCHANGED writer_vars

\* Calls of add_tag and add_field, as the measure! macro chains them.
BuildKeys == {<<"a">>, <<"b">>}
BuildCalls ==
    {[kind |-> "add_tag", key |-> k, tag |-> v, field |-> Integer(0)] :
        k \in BuildKeys, v \in {<<"x">>, <<"y">>}}
    \cup {[kind |-> "add_field", key |-> k, tag |-> << >>, field |-> v] :
        k \in BuildKeys, v \in {Integer(1), Boolean(TRUE)}}

\* The calls of tests::it_checks_that_fields_are_separated_correctly.
SeparatedTest ==
    <<[kind |-> "add_tag", key |-> <<"a">>, tag |-> <<"o", "n", "e">>, field |-> Integer(0)],
      [kind |-> "add_tag", key |-> <<"b">>, tag |-> <<"t", "w", "o">>, field |-> Integer(0)],
      [kind |-> "add_field", key |-> <<"x">>, tag |-> << >>,
       field |-> Float(Finite(FALSE, 1, <<"1">>))],
      [kind |-> "add_field", key |-> <<"y">>, tag |-> << >>,
       field |-> Float(Finite(TRUE, 1, <<"1">>))]>>

RECURSIVE apply_calls(_, _)
apply_calls(m, calls) ==
    IF calls = << >> THEN m
    ELSE LET c == Head(calls)
         IN  apply_calls(IF c.kind = "add_tag" THEN add_tag(m, c.key, c.tag)
                         ELSE add_field(m, c.key, c.field), Tail(calls))

\* A measurement is built by a chain of add_tag and add_field calls, then
\* read with get_tag and get_field and encoded.
Apply_add_calls ==
    /\ enc_op = "none"
    /\ \E calls \in SeqsUpTo(BuildCalls, MaxCalls) \cup {SeparatedTest} :
          LET m == apply_calls(OwnedMeasurement_new(<<"t", "e", "s", "t">>), calls)
          IN  /\ enc_op' = "add_calls"
              /\ enc_in' = calls
              /\ enc_out' = [m |-> m,
                             get_tag |-> [k \in BuildKeys |-> get_tag(m, k)],
                             get_field |-> [k \in BuildKeys |-> get_field(m, k)],
                             line |-> serialize_owned(m, << >>)]
    /\ UNCHANGED writer_vars

\* Calls on a MeasurementRecord: add_tag, or a value emitted through one
\* of the serializers.
AdapterKeys == ReservedTagNames \cup {"price"}
EmittedValues ==
    {Emitted("str", 0, <<"x">>, FALSE), Emitted("i64", 7, << >>, FALSE),
     Emitted("bool", 0, << >>, TRUE), Emitted("none", 0, << >>, FALSE)}
AdapterCalls ==
    {[via |-> via, key |-> key, v |-> v] :
        via \in {"TagBuilder", "MeasurementRecord"}, key \in AdapterKeys, v \in EmittedValues}
    \cup {[via |-> "add_tag", key |-> key, v |-> Emitted("str", 0, <<"x">>, FALSE)] :
              key \in AdapterKeys}

RECURSIVE apply_adapter_calls(_, _)
apply_adapter_calls(r, calls) ==
    IF calls = << >> THEN r
    ELSE LET c == Head(calls)
         IN  apply_adapter_calls(
                 CASE c.via = "TagBuilder" -> TagBuilder_emit(r, c.key, c.v)
                   [] c.via = "MeasurementRecord" -> MeasurementRecord_emit(r, c.key, c.v)
                   [] c.via = "add_tag" -> MeasurementRecord_add_tag(r, c.key, c.v.s),
                 Tail(calls))

\* A MeasurementRecord is filled by add_tag calls and by values emitted
\* through its serializers.
Apply_adapter_calls ==
    /\ enc_op = "none"
    /\ \E calls \in SeqsUpTo(AdapterCalls, MaxEmits) :
          /\ enc_op' = "adapter_calls"
          /\ enc_in' = calls
          /\ enc_out' = apply_adapter_calls(MeasurementRecord_new, calls)
    /\ UNCHANGED writer_vars

Apply_set_tag ==
    /\ enc_op = "none"
    /\ \E m \in TaggedMeasurements, key \in TagKeys, value \in TagValues :
          /\ enc_op' = "set_tag"
          /\ enc_in' = [m |-> m, key |-> key, value |-> value]
          /\ enc_out' = set_tag(m, key, value)
    /\ UNCHANGED writer_vars

Apply_serialize_owned ==
    /\ enc_op = "none"
    /\ \E m \in MeasurementsOf(OwnedValues) \cup {RustTest} :
          /\ enc_op' = "serialize_owned"
          /\ enc_in' = m
          /\ enc_out' = serialize_owned(m, << >>)
    /\ UNCHANGED writer_vars

\* What a String the encoder appends to holds already, and measurements
\* whose texts have a newline of their own.
EncLines == {<< >>, <<"p">>, <<"p", " ", "q", NL>>}
AppendedValues == {Integer(1), String(<<"s", NL>>)}
AppendedMeasurements ==
    MeasurementsOf(AppendedValues)
    \cup {add_tag(OwnedMeasurement_new(<<"m">>), <<"a">>, <<NL, "b">>)}

\* A call of serialize_owned on a String that is in use.
Apply_serialize_owned_append ==
    /\ enc_op = "none"
    /\ \E m \in AppendedMeasurements, line \in EncLines :
          /\ enc_op' = "serialize_owned_append"
          /\ enc_in' = [m |-> m, line |-> line]
          /\ enc_out' = serialize_owned(m, line)
    /\ UNCHANGED writer_vars

Apply_serialize ==
    /\ enc_op = "none"
    /\ \E m \in MeasurementsOf(LegacyValues) \cup {RustTest} :
          /\ enc_op' = "serialize"
          /\ enc_in' = m
          /\ enc_out' = serialize(m, << >>)
    /\ UNCHANGED writer_vars

EncInit == Init /\ buffer_size = 0

EncNext ==
    \/ Apply_as_string
    \/ Apply_escape_tag
    \/ Apply_escape
    \/ Apply_add_field
    \/ Apply_add_calls
    \/ Apply_adapter_calls
    \/ Apply_set_tag
    \/ Apply_serialize_owned
    \/ Apply_serialize_owned_append
    \/ Apply_serialize

EncSpec == EncInit /\ [][EncNext]_vars

(***************************************************************************)
(* The WarningsManager: senders of warnings and the worker thread of new.  *)
(***************************************************************************)
\* Mutant: a record is put at the back of the history.
push_back(d, x) == Append(d, x)

\* VecDeque::push_front
push_front(d, x) == <<x>> \o d

\* VecDeque::truncate: the first len elements are kept.
truncate(d, len) == IF Len(d) > len THEN SubSeq(d, 1, len) ELSE d

\* The n-th warning of a kind; Notice stands for the variants other than Log
\* and Terminate.
Warning(kind, n) == [kind |-> kind, n |-> n]

\* Record::new(msg)
Record_new(msg) == msg

\* tx.send(warning) while the worker's Receiver lives: the message is
\* queued.  Once the worker has left its loop the Receiver is dropped, send
\* returns Err and nothing changes.
warnings_send(w) ==
    /\ warnings_pc = "loop"
    /\ warnings_rx' = Append(warnings_rx, w)
    /\ UNCHANGED <<warnings, warnings_pc, socket, outside_manager>>

\* A warning other than Log and Terminate is sent (the macros notice!,
\* error!, critical!, ...).
SendWarning ==
    /\ warnings_sent.other < MaxWarnings
    /\ Len(warnings_rx) < MaxWarningsQueued
    /\ warnings_sent' = [warnings_sent EXCEPT !.other = @ + 1]
    /\ warnings_send(Warning("Notice", warnings_sent.other + 1))

\* A Warning::Log is sent (by the drain).
SendLog ==
    /\ warnings_sent.log < MaxLogs
    /\ Len(warnings_rx) < MaxWarningsQueued
    /\ warnings_sent' = [warnings_sent EXCEPT !.log = @ + 1]
    /\ warnings_send(Warning("Log", warnings_sent.log + 1))

\* Drop for WarningsManager sends Warning::Terminate.
SendTerminate ==
    /\ warnings_sent.terminate = 0
    /\ warnings_sent' = [warnings_sent EXCEPT !.terminate = 1]
    /\ warnings_send(Warning("Terminate", 1))

\* The worker receives Warning::Terminate and leaves its loop.
WorkerTerminate ==
    /\ warnings_pc = "loop"
    /\ warnings_rx # << >>
    /\ Head(warnings_rx).kind = "Terminate"
    /\ warnings_rx' = Tail(warnings_rx)
    /\ warnings_pc' = "done"
    /\ UNCHANGED <<warnings, warnings_sent, socket, outside_manager>>

\* The worker receives Warning::Log: it is serialized and sent on the
\* socket, and not pushed to the history.
WorkerLog ==
    /\ warnings_pc = "loop"
    /\ warnings_rx # << >>
    /\ Head(warnings_rx).kind = "Log"
    /\ warnings_rx' = Tail(warnings_rx)
    /\ socket' = Some(Head(warnings_rx))
    /\ UNCHANGED <<warnings, warnings_sent, warnings_pc, outside_manager>>

\* The worker receives any other warning: its record is sent on the
\* socket, pushed to the front of the history, and the history truncated.
WorkerOther ==
    /\ warnings_pc = "loop"
    /\ warnings_rx # << >>
    /\ Head(warnings_rx).kind \notin {"Terminate", "Log"}
    /\ warnings_rx' = Tail(warnings_rx)
    /\ LET rec == Record_new(Head(warnings_rx))
       IN  /\ socket' = Some(rec)
           /\ warnings' = truncate(push_front(warnings, rec), N_WARNINGS)
    /\ UNCHANGED <<warnings_sent, warnings_pc, outside_manager>>

ManagerInit == Init /\ buffer_size = 0

ManagerNext ==
    \/ SendWarning
    \/ SendLog
    \/ SendTerminate
    \/ WorkerTerminate
    \/ WorkerLog
    \/ WorkerOther

ManagerSpec == ManagerInit /\ [][ManagerNext]_vars

\* The steps of a Drop that has begun.
DropProgress == DropSendNone \/ DropJoin \/ DropShared

\* The consumer thread is scheduled whenever it can take a step, a Drop that
\* has begun runs to its end, and time passes; producers and handle owners are
\* free to send nothing more and to keep their handles.
FairSpec == Spec /\ WF_vars(Consumer) /\ WF_vars(DropProgress) /\ WF_vars(Tick)

(***************************************************************************)
(* Reading a POST body back: its lines, and the measurement of each line.  *)
(***************************************************************************)
RECURSIVE Lines(_)
Lines(t) ==
    IF \A i \in 1..Len(t) : t[i] # NL THEN <<t>>
    ELSE LET i == CHOOSE k \in 1..Len(t) : t[k] = NL /\ \A j \in 1..(k - 1) : t[j] # NL
         IN  <<SubSeq(t, 1, i - 1)>> \o Lines(SubSeq(t, i + 1, Len(t)))

NonEmpty(l) == l # << >>

\* The encoded measurements of a text: its non-empty lines.
Items(t) == SelectSeq(Lines(t), NonEmpty)

ItemCount(t) == Len(Items(t))

MarkerLine == serialize_owned(wtrterm, << >>)

DigitChars == {"0", "1", "2", "3", "4", "5", "6", "7", "8", "9"}

DigitVal(c) == CHOOSE d \in 0..9 : DigitChar(d) = c

RECURSIVE parse_digits(_, _)
parse_digits(t, acc) ==
    IF t = << >> \/ Head(t) \notin DigitChars THEN acc
    ELSE parse_digits(Tail(t), acc * 10 + DigitVal(Head(t)))

\* The number in the tag `seq` of a line (the first `=` of the line), 0 for
\* the termination marker's line.
LineId(l) ==
    IF l = MarkerLine THEN 0
    ELSE LET i == CHOOSE k \in 1..Len(l) : l[k] = "=" /\ \A j \in 1..(k - 1) : l[j] # "="
         IN  parse_digits(SubSeq(l, i + 1, Len(l)), 0)

TextIds(t) == LET items == Items(t) IN [k \in 1..Len(items) |-> LineId(items[k])]

RECURSIVE PostedIdsUpTo(_)
PostedIdsUpTo(n) == IF n = 0 THEN << >> ELSE PostedIdsUpTo(n - 1) \o TextIds(posts[n].body)

\* The ids of the lines of all POST bodies, in the order the POSTs were issued.
PostedIds == PostedIdsUpTo(Len(posts))

Occurrences(seq, x) == Cardinality({k \in 1..Len(seq) : seq[k] = x})

QueuedIds == [k \in 1..Len(queue) |-> queue[k].id]

AllReleased == handles["Released"] = Created

\* The sends of a measurement that returned Ok before any None was enqueued.
SentBeforeSignal == {i \in 1..Len(sendLog) : sendLog[i].ok /\ sendLog[i].some /\ sendLog[i].presig}

(***************************************************************************)
(* Claims.                                                                 *)
(***************************************************************************)

\* C1: once every handle has been released, the consumer thread has received
\* a shutdown signal and has exited (the release of the last handle sends the
\* signal and joins the thread), whatever the interleaving of the releases.
\* Violated: two handles that run Arc::try_unwrap before either gives its Arc
\* back both fail, and nobody sends the signal.
C1_LastReleaseJoins == AllReleased => pc = "done"

\* C2: at the exit of the consumer thread the buffer is empty, and every
\* measurement whose send returned Ok before the shutdown signal was enqueued
\* is in the body of some POST and not in the queue.
C2_ShutdownPreservesData ==
    pc = "done" =>
        LET posted == PostedIds
        IN  /\ buf = << >>
            /\ \A i \in SentBeforeSignal :
                /\ Occurrences(posted, i) >= 1
                /\ Occurrences(QueuedIds, i) = 0

C2_Witness ==
    /\ pc = "done"
    /\ drop_signals = 1
    /\ Cardinality(SentBeforeSignal) >= 2
    /\ \E k \in 1..Len(posts) : posts[k].kind = "term"

\* C3: if the buffer holds k >= 1 lines when the shutdown signal is received,
\* exactly one POST is made between that moment and the exit of the thread,
\* and its body is those lines followed by the termination marker's line.
C3_ShutdownFlush ==
    (pc = "done" /\ term_buf # None /\ Len(term_buf[1]) > 0) =>
        /\ Cardinality({k \in 1..Len(posts) : posts[k].kind # "next"}) = 1
        /\ posts[Len(posts)].kind # "next"
        /\ posts[Len(posts)].body = term_buf[1] \o <<NL>> \o MarkerLine
        /\ ItemCount(posts[Len(posts)].body) = ItemCount(term_buf[1]) + 1

C3_Witness ==
    /\ pc = "done"
    /\ term_buf # None
    /\ ItemCount(term_buf[1]) = 2
    /\ Len(posts) = 1

\* C4: with buffer_size = N >= 1 and MAX_PENDING not elapsed, no POST is made
\* before N + 1 measurements have been received since the last flush: the
\* buffer holds `count` lines between receives, a flush made by `next` with
\* MAX_PENDING not elapsed carries exactly N + 1 lines, and when it returns
\* the count is 0 and the buffer is empty.
C4_FlushBatching ==
    buffer_size >= 1 =>
        /\ pc \in {"top", "recv"} => ItemCount(buf) = count /\ (count = 0 => buf = << >>)
        /\ \A k \in 1..Len(posts) :
              (posts[k].kind = "next" /\ posts[k].elapsed < MAX_PENDING)
                  => ItemCount(posts[k].body) = buffer_size + 1

C4_Witness ==
    /\ buffer_size >= 1
    /\ pc = "top"
    /\ count = 0
    /\ buf = << >>
    /\ Len(posts) = 1
    /\ posts[1].kind = "next"
    /\ posts[1].elapsed < MAX_PENDING
    /\ ItemCount(posts[1].body) = buffer_size + 1

IsIncreasing(seq) == \A j, k \in 1..Len(seq) : j < k => seq[j] < seq[k]

DropMarker(seq) == SelectSeq(seq, LAMBDA x : x # 0)

\* C5: the lines of all POST bodies, in the order the POSTs are issued and
\* followed by the lines still in the buffer, are in the order in which their
\* measurements were enqueued.
C5_Fifo ==
    [] IsIncreasing(DropMarker(PostedIds \o (IF pc = "post" THEN << >> ELSE TextIds(buf))))

C5_Witness ==
    /\ Len(posts) >= 1
    /\ DropMarker(PostedIds) = <<1, 2>>
    /\ Created = 2

IsPrefix(a, b) == Len(a) <= Len(b) /\ SubSeq(b, 1, Len(a)) = a

\* C6 as stated: a measurement that sits in the buffer is included in a POST
\* after a bounded time, in every execution (also when no further message is
\* ever enqueued).  Violated under FairSpec: the consumer waits in rx.recv()
\* and nothing flushes the buffer.
C6_BoundedLatency == (pc = "recv" /\ Len(buf) > 0) ~> (pc = "post")

\* C6 amended: a POST is issued only by a step that receives a message; the
\* lines in the buffer are all in the POST issued when the next message is
\* received with count >= buffer_size, or with loop_time - last >= MAX_PENDING,
\* or is the shutdown signal.
C6_FlushOnlyOnReceive ==
    [][ /\ Len(posts') > Len(posts) => Len(queue') < Len(queue)
        /\ ( /\ Len(queue') < Len(queue)
             /\ Len(buf) > 0
             /\ \/ Head(queue).m = None
                \/ count >= buffer_size
                \/ loop_time - last >= MAX_PENDING )
           => /\ Len(posts') = Len(posts) + 1
              /\ IsPrefix(buf, posts'[Len(posts')].body) ]_vars

\* A flush made by `next` because MAX_PENDING had elapsed, below the size
\* threshold, with no message left and no shutdown under way.
C6_Witness ==
    /\ pc = "post"
    /\ post_kind = "next"
    /\ count < buffer_size
    /\ loop_time - last >= MAX_PENDING
    /\ ItemCount(buf) = 2
    /\ queue = << >>

\* C7: count never exceeds buffer_size, and no POST body has more than
\* buffer_size + 1 lines.
C7_BatchSizeBound ==
    /\ count <= buffer_size
    /\ \A k \in 1..Len(posts) : ItemCount(posts[k].body) <= buffer_size + 1

C7_Witness ==
    /\ buffer_size = 2
    /\ pc = "post"
    /\ count = buffer_size
    /\ ItemCount(posts[Len(posts)].body) = buffer_size + 1

\* C8: a send is enabled for every live handle and every Sender from tx(),
\* whatever the length of the queue and the position of the consumer, and it
\* returned Ok whenever the consumer thread had not terminated.
C8_SendNeverBlocks ==
    /\ \A i \in 1..Len(sendLog) : sendLog[i].alive => sendLog[i].ok
    /\ Len(sendLog) < MaxSends =>
          /\ handles["Live"] > 0 =>
                \A m \in Measurements(Len(sendLog) + 1) : ENABLED InfluxWriter_send(m)
          /\ raw > 0 => \A msg \in Messages(Len(sendLog) + 1) : ENABLED RawSend(msg)

C8_Witness ==
    /\ pc = "post"
    /\ Len(queue) >= 1
    /\ Len(sendLog) >= 2
    /\ \A i \in 1..Len(sendLog) : sendLog[i].ok

\* C9 as stated: a send attempted after Drop has sent the shutdown signal
\* returns an error.  Violated: a Sender from tx() is served Ok until the
\* consumer thread has left its loop.
C9_ErrAfterSignal == \A i \in 1..Len(sendLog) : sendLog[i].afterdrop => ~sendLog[i].ok

\* C9 amended: a send attempted after the consumer thread has terminated
\* returns an error; the thread terminates only after a shutdown signal.
C9_ErrAfterExit ==
    \A i \in 1..Len(sendLog) : ~sendLog[i].alive => (~sendLog[i].ok /\ ~sendLog[i].presig)

C9_Witness ==
    \E i, j \in 1..Len(sendLog) :
        /\ sendLog[i].afterdrop /\ sendLog[i].alive /\ sendLog[i].ok
        /\ sendLog[j].afterdrop /\ ~sendLog[j].alive /\ ~sendLog[j].ok

\* C10 as stated: at the exit of the consumer, every measurement whose send
\* returned Ok has been received once and is a line of exactly one POST.
\* Violated: a measurement accepted behind the shutdown signal stays unread.
C10_ExactlyOnce ==
    pc = "done" =>
        \A i \in 1..Len(sendLog) : (sendLog[i].ok /\ sendLog[i].some) =>
            /\ Occurrences(dequeued, i) = 1
            /\ Occurrences(PostedIds, i) = 1

\* C10 amended: no measurement is received or encoded twice, a received
\* measurement has its one line in the buffer or in one POST, a measurement
\* accepted behind a shutdown signal is never received, and at the exit of the
\* consumer every measurement accepted before any shutdown signal has been
\* received once and is a line of exactly one POST.
C10_AtMostOnce ==
    LET posted == PostedIds
        encoded == posted \o (IF pc = "post" THEN << >> ELSE TextIds(buf))
    IN  /\ \A i \in 1..Len(sendLog) :
            /\ Occurrences(dequeued, i) <= 1
            /\ Occurrences(encoded, i) = Occurrences(dequeued, i)
            /\ (~sendLog[i].ok \/ ~sendLog[i].presig) => Occurrences(dequeued, i) = 0
        /\ pc = "done" =>
            \A i \in SentBeforeSignal :
                /\ Occurrences(dequeued, i) = 1
                /\ Occurrences(posted, i) = 1

C10_Witness ==
    /\ pc = "done"
    /\ Len(posts) >= 1
    /\ Cardinality(SentBeforeSignal) >= 1
    /\ \E i \in 1..Len(sendLog) : sendLog[i].ok /\ sendLog[i].some /\ ~sendLog[i].presig

(***************************************************************************)
(* Releasing a handle that is not the last one.                            *)
(***************************************************************************)
\* Handles other than the one taking the step that still hold the Arc: they
\* exist, released or not yet through their Drop.
OthersExist == handles["Live"] + handles["Shared"] >= 2

\* A step of the Drop of a handle, taken while another handle exists: its
\* first step (the handle stops being Live) or its last (it becomes
\* Released).
ReleaseWhileOthersExist ==
    /\ OthersExist
    /\ \/ handles'["Live"] < handles["Live"]
       \/ handles'["Released"] > handles["Released"]

\* C11: releasing a handle while at least one other handle exists sends no
\* shutdown signal, neither joins nor stops the consumer, and leaves the
\* queue, the buffer and pending_count as they were; the handles that remain
\* are as many as before less this one, and the consumer that takes their
\* sends is as alive as before.  No Drop sends the signal or joins while
\* another handle exists.
C11_NonLastReleaseFrame ==
    [][ /\ ReleaseWhileOthersExist =>
              /\ UNCHANGED <<queue, buf, count, pc, nsignals, drop_signals, posts, dequeued>>
              /\ handles'["Unwrapped"] = handles["Unwrapped"]
              /\ handles'["Joining"] = handles["Joining"]
              /\ handles'["Live"] >= handles["Live"] - 1
              /\ rx_alive' = rx_alive
        /\ (drop_signals' # drop_signals \/ handles'["Joining"] # handles["Joining"]) =>
              handles["Live"] + handles["Shared"] = 0
      ]_vars

\* One handle is released, another is live, no shutdown signal was sent, and
\* a send of the remaining handle can be taken and returns Ok.
C11_Witness ==
    /\ handles["Released"] >= 1
    /\ handles["Live"] >= 1
    /\ nsignals = 0
    /\ rx_alive
    /\ Sender_send(rx_alive)
    /\ Len(sendLog) < MaxSends
    /\ ENABLED (\E m \in Measurements(Len(sendLog) + 1) : InfluxWriter_send(m))

(***************************************************************************)
(* A POST that fails.                                                      *)
(***************************************************************************)
\* The step in which a call of the `send` closure returns.
SendReturns == pc = "post" /\ (pc' # "post" \/ post_kind' # post_kind)

NoLineInTwoPosts ==
    LET posted == PostedIds
    IN  \A i \in 1..Len(sendLog) : Occurrences(posted, i) <= 1

\* C12: when a POST fails (a status other than 204, or a transport error) the
\* batch is dropped and the writer goes on: nothing is sent again or put back
\* in the queue, no line is in more than one POST, the buffer is cleared and
\* pending_count reset as after a 204, and the consumer returns to the top of
\* its loop, where later measurements are batched anew.
C12_FailedPostDropsBatch ==
    [][ (SendReturns /\ resp' # "NoContent") =>
            /\ queue' = queue
            /\ dequeued' = dequeued
            /\ posts' = posts
            /\ NoLineInTwoPosts
            /\ post_kind = "next" =>
                  /\ buf' = << >>
                  /\ count' = 0
                  /\ last' = loop_time
                  /\ pc' = "top"
                  /\ rx_alive'
            /\ post_kind = "term" => (buf' = << >> /\ count' = 0)
      ]_vars

\* A first POST failed, and a later measurement is in a second POST now in
\* flight, which has none of the lines of the first.
C12_Witness ==
    /\ Len(posts) = 2
    /\ pc = "post"
    /\ post_kind = "next"
    /\ resp # "NoContent"
    /\ TextIds(posts[1].body) # << >>
    /\ TextIds(posts[2].body) # << >>
    /\ \A i \in 1..Len(TextIds(posts[1].body)) :
          Occurrences(TextIds(posts[2].body), TextIds(posts[1].body)[i]) = 0

(***************************************************************************)
(* The lines the consumer encodes, against the measurements submitted.     *)
(***************************************************************************)
Range(f) == {f[k] : k \in DOMAIN f}

\* Every measurement line encoded so far: those of the POST bodies and those
\* of the buffer.
EncodedLines ==
    {l \in UNION ({Range(Items(posts[k].body)) : k \in 1..Len(posts)} \cup {Range(Items(buf))}) :
        l # MarkerLine}

\* The measurement that was submitted as the n-th send.
Submitted(n) == CHOOSE m \in Measurements(n) : TRUE

\* The text after the last space of a line.
LastToken(l) ==
    LET i == CHOOSE k \in 0..Len(l) :
                 /\ k > 0 => l[k] = " "
                 /\ \A j \in (k + 1)..Len(l) : l[j] # " "
    IN  SubSeq(l, i + 1, Len(l))

\* The text of a line up to its last space, without it.
BeforeLastToken(l) == SubSeq(l, 1, Len(l) - Len(LastToken(l)) - 1)

\* C13: a measurement dequeued with an empty field list is encoded with the
\* single field n = Integer(1), its line being `<key>[,tags] n=1i <ts>`; a
\* measurement dequeued with fields is encoded with its own fields only.
C13_DefaultField ==
    [](\A l \in EncodedLines :
        LET m == Submitted(LineId(l))
            head == add_tags(escape_tag(m.key), m.tags)
        IN  IF m.fields = << >>
            THEN BeforeLastToken(l) = head \o <<" ", "n", "=", "1", "i">>
            ELSE BeforeLastToken(l) = add_fields(head, m.fields, TRUE))

\* A POST body has the line of a measurement submitted without fields and the
\* line of a measurement submitted with a field.
C13_Witness ==
    \E k \in 1..Len(posts) :
        /\ \E l \in Range(Items(posts[k].body)) :
              l # MarkerLine /\ Submitted(LineId(l)).fields = << >>
        /\ \E l \in Range(Items(posts[k].body)) :
              l # MarkerLine /\ Submitted(LineId(l)).fields # << >>

\* C14: a measurement dequeued without a timestamp is encoded with the time
\* the clock shows at the step that dequeues it, whenever it was created or
\* enqueued and whatever time the loop sampled before it waited; a
\* measurement dequeued with a timestamp is encoded with that timestamp.
C14_StampAtDequeue ==
    [][ Len(dequeued') = Len(dequeued) + 1 =>
            LET m == queue[recv_index(queue)].m[1]
                l == Items(buf')[ItemCount(buf')]
            IN  /\ LineId(l) = queue[recv_index(queue)].id
                /\ IF m.timestamp = None
                   THEN LastToken(l) = to_string(clock)
                   ELSE LastToken(l) = to_string(m.timestamp[1])
      ]_vars

\* The buffer ends with the line of a measurement submitted without a
\* timestamp, stamped with a time later than the one the loop sampled before
\* it waited for the measurement.
C14_Witness ==
    /\ pc = "top"
    /\ ItemCount(buf) >= 1
    /\ LET l == Items(buf)[ItemCount(buf)]
       IN  /\ Submitted(LineId(l)).timestamp = None
           /\ LastToken(l) = to_string(clock)
           /\ loop_time < clock

(***************************************************************************)
(* OwnedMeasurement::set_tag.                                              *)
(***************************************************************************)
\* C15: set_tag(key, value) on a measurement that has a tag with that key
\* replaces the value of the first such entry in place: get_tag(key) then
\* returns value, the key and the position of the entry and the number of
\* tags are as before; on a measurement without the key it appends the pair.
\* Violated: the entry's key is overwritten with value and its value is left.
C15_SetTagReplaces ==
    enc_op = "set_tag" =>
        LET m == enc_in.m
            key == enc_in.key
            value == enc_in.value
            p == position(m.tags, key)
        IN  IF p # None
            THEN /\ get_tag(enc_out, key) = Some(value)
                 /\ Len(enc_out.tags) = Len(m.tags)
                 /\ enc_out.tags[p[1]] = <<key, value>>
                 /\ \A i \in 1..Len(m.tags) : i # p[1] => enc_out.tags[i] = m.tags[i]
            ELSE enc_out.tags = Append(m.tags, <<key, value>>)

(***************************************************************************)
(* The size the writer is constructed with.                                *)
(***************************************************************************)
\* C16: the size supplied at construction is the threshold of the flush
\* policy: a writer constructed with N never holds more than N pending
\* measurements, and a flush made before max_pending_duration has elapsed has
\* N + 1 lines.
\* Violated: the threshold is INFLUX_WRITER_MAX_BUFFER (or 0) whatever N is.
C16_SuppliedSizeIsThreshold ==
    /\ count <= requested_size
    /\ \A k \in 1..Len(posts) :
          (posts[k].kind = "next" /\ posts[k].elapsed < MAX_PENDING) =>
              ItemCount(posts[k].body) = requested_size + 1

(***************************************************************************)
(* Escaping.                                                               *)
(***************************************************************************)
\* A text without its first and last character.
Interior(t) == SubSeq(t, 2, Len(t) - 1)

\* s with a backslash put before every double quote that has none before it.
RECURSIVE QuotesEscapedOnce(_, _)
QuotesEscapedOnce(s, prev) ==
    IF s = << >> THEN << >>
    ELSE (IF Head(s) = QUOTE /\ prev # BACKSLASH THEN <<BACKSLASH, QUOTE>> ELSE <<Head(s)>>)
         \o QuotesEscapedOnce(Tail(s), Head(s))

\* C17: as_string never double-escapes: for every s it wraps s in double
\* quotes, puts exactly one backslash before a double quote that has none
\* before it and leaves a quote that follows a backslash as it is, so every
\* quote inside the result follows a backslash and escaping the escaped
\* content again returns it unchanged.
C17_NoDoubleEscape ==
    enc_op = "as_string" =>
        LET e == Interior(enc_out)
        IN  /\ enc_out = <<QUOTE>> \o QuotesEscapedOnce(enc_in, "") \o <<QUOTE>>
            /\ \A i \in 1..Len(e) : e[i] = QUOTE => (i > 1 /\ e[i - 1] = BACKSLASH)
            /\ Interior(as_string(e)) = e
            /\ Len(e) = Len(enc_in)
                 + Cardinality({i \in 1..Len(enc_in) :
                       enc_in[i] = QUOTE /\ (i = 1 \/ enc_in[i - 1] # BACKSLASH)})

\* as_string was called on a bare quote followed by an escaped one.
C17_Witness ==
    /\ enc_op = "as_string"
    /\ enc_in = <<QUOTE, BACKSLASH, QUOTE>>
    /\ enc_out = <<QUOTE, BACKSLASH, QUOTE, BACKSLASH, QUOTE, QUOTE>>

IsIdentifierChar(c) == c \notin {" ", ",", QUOTE}

\* C18: identifier escaping removes every space, comma and double quote and
\* changes nothing else: the result is the input without those characters,
\* in order; an input with none of them is returned as it is; the result is
\* a fixed point.  serialize_owned writes the measurement key that way.
C18_EscapeTagRemoves ==
    /\ enc_op = "escape_tag" =>
          /\ enc_out = SelectSeq(enc_in, IsIdentifierChar)
          /\ (\A i \in 1..Len(enc_in) : IsIdentifierChar(enc_in[i])) => enc_out = enc_in
          /\ escape_tag(enc_out) = enc_out
    /\ (enc_op = "serialize_owned" /\ enc_in.tags = << >> /\ enc_in.fields = << >>
          /\ enc_in.timestamp = None) =>
          enc_out = SelectSeq(enc_in.key, IsIdentifierChar)

\* escape_tag was called on a text with a space, a comma and another
\* character.
C18_Witness ==
    /\ enc_op = "escape_tag"
    /\ enc_in = <<" ", "a", ",">>
    /\ enc_out = <<"a">>

(***************************************************************************)
(* The line of a measurement, put together from its parts.                 *)
(***************************************************************************)
\* The texts of a sequence one after the other, sep between two of them.
RECURSIVE JoinWith(_, _)
JoinWith(texts, sep) ==
    IF texts = << >> THEN << >>
    ELSE IF Len(texts) = 1 THEN texts[1]
    ELSE texts[1] \o sep \o JoinWith(Tail(texts), sep)

\* The line protocol form of a measurement: ident writes an identifier and
\* lit the literal of a field value.
ExpectedLine(ident(_), lit(_), m) ==
    ident(m.key)
    \o JoinWith([i \in 1..Len(m.tags) |->
                    <<",">> \o ident(m.tags[i][1]) \o <<"=">> \o escape(m.tags[i][2])], << >>)
    \o (IF m.fields = << >> THEN << >>
        ELSE <<" ">> \o JoinWith([i \in 1..Len(m.fields) |->
                                     ident(m.fields[i][1]) \o <<"=">> \o lit(m.fields[i][2])],
                                 <<",">>))
    \o (IF m.timestamp = None THEN << >> ELSE <<" ">> \o to_string(m.timestamp[1]))

\* How the entry point that was called writes an identifier.
CalledIdent(s) == IF enc_op = "serialize" THEN escape(s) ELSE escape_tag(s)

IsNumber(v) == v.variant \in {"Float", "D128"}

\* The literal of a Float or Decimal with non-finite values normalized.
NormalizedLiteral(v) == IF is_finite(v.f) THEN plain_decimal(v.f) ELSE <<"0", ".", "0">>

\* C19: for every entry point of the encoder (serialize_owned and serialize)
\* a Float or Decimal field value that is NaN or an infinity is written as
\* 0.0, and a finite one as its decimal digits.
\* Violated: serialize writes a non-finite Float as NaN, inf or -inf.
C19_NonFiniteAsZero ==
    (enc_op \in {"serialize_owned", "serialize"}
        /\ \A i \in 1..Len(enc_in.fields) : IsNumber(enc_in.fields[i][2])) =>
        enc_out = ExpectedLine(CalledIdent, NormalizedLiteral, enc_in)

\* The literal of a field value as the entry point that was called writes it.
CalledLiteral(v) ==
    CASE v.variant = "String" -> as_string(v.s)
      [] v.variant = "Integer" -> to_string(v.i) \o <<"i">>
      [] v.variant = "Boolean" -> as_boolean(v.b)
      [] IsNumber(v) -> IF enc_op = "serialize" THEN f64_to_string(v.f)
                        ELSE NormalizedLiteral(v)
      [] v.variant = "Uuid" -> <<QUOTE>> \o uuid_to_string(v.u) \o <<QUOTE>>

\* C20: the line of a measurement with tags t1..tm, fields f1..fn (n >= 1)
\* and timestamp T is the key, then `,k=v` for each tag, then one space, then
\* the fields as `k=literal` with a comma between two of them, then one space
\* and T in digits; key rust_test, tag (a, b), field (c, Float 1.0) and
\* timestamp 12 give `rust_test,a=b c=1 12`.
C20_LineStructure ==
    (enc_op \in {"serialize_owned", "serialize"} /\ Len(enc_in.fields) >= 1
        /\ enc_in.timestamp # None) =>
        /\ enc_out = ExpectedLine(CalledIdent, CalledLiteral, enc_in)
        /\ enc_in = RustTest =>
              enc_out = <<"r", "u", "s", "t", "_", "t", "e", "s", "t", ",", "a", "=", "b",
                          " ", "c", "=", "1", " ", "1", "2">>

\* serialize_owned was called on a measurement with two tags, two fields and
\* a timestamp.
C20_Witness ==
    /\ enc_op = "serialize_owned"
    /\ Len(enc_in.tags) = 2
    /\ Len(enc_in.fields) = 2
    /\ enc_in.timestamp = Some(12)
    /\ enc_in.key = <<"m">>
    /\ enc_in.tags[1][1] = <<"a">>
    /\ enc_in.fields[1][2] = Integer(1)
    /\ enc_in.fields[2][2] = Float(Finite(TRUE, 1, <<"1">>))
    /\ SubSeq(enc_out, 1, 5) = <<"m", ",", "a", "=", "b">>
    /\ SubSeq(enc_out, Len(enc_out) - 14, Len(enc_out))
           = <<" ", "c", "=", "1", "i", ",", "c", "=", "-", "1", ".", "1", " ", "1", "2">>

(***************************************************************************)
(* The flush policy, item by item.                                         *)
(***************************************************************************)
\* The step in which the consumer dequeues a measurement.
Dequeues == Len(dequeued') = Len(dequeued) + 1

\* The step appends the item and issues no POST.
AppendsOnly == posts' = posts /\ pc' = "top" /\ count' = count + 1 /\ buf' # buf

\* C21: an item dequeued while 0 < pending_count < max_buffer_size is
\* appended without a flush if and only if the time elapsed since
\* last_flush_time, measured at the moment the item is dequeued, is less than
\* max_pending_duration; otherwise it is appended and the batch is flushed.
\* Violated: the elapsed time is taken from loop_time, sampled before the
\* thread waited in recv, so an item that arrives late is appended unflushed.
C21_TimeTriggeredFlush ==
    [][ (Dequeues /\ 0 < count /\ count < buffer_size) =>
            /\ AppendsOnly <=> (clock - last < MAX_PENDING)
            /\ ~AppendsOnly =>
                  (pc' = "post" /\ Len(posts') = Len(posts) + 1
                      /\ posts'[Len(posts')].body = buf')
      ]_vars

\* C22: the first item of a batch is never flushed at once: an item dequeued
\* with pending_count = 0 is appended and pending_count becomes 1 with no
\* POST, however much time has elapsed.
\* Violated: with a threshold of 0 every item is sent alone, at once.
C22_FirstItemNeverFlushed ==
    [][ (Dequeues /\ count = 0) => (posts' = posts /\ count' = 1) ]_vars

\* C22 amended: with a threshold above 0 an item dequeued with pending_count
\* = 0 becomes the only line of the buffer, pending_count becomes 1 and no
\* POST is made, whatever the elapsed time; with a threshold of 0 it is sent
\* at once, alone, and pending_count stays 0.
C22_FirstItemUnlessUnbuffered ==
    [][ (Dequeues /\ count = 0) =>
            IF buffer_size > 0
            THEN /\ posts' = posts
                 /\ count' = 1
                 /\ pc' = "top"
                 /\ ItemCount(buf') = 1
            ELSE /\ Len(posts') = Len(posts) + 1
                 /\ ItemCount(posts'[Len(posts')].body) = 1
                 /\ count' = 0
                 /\ pc' = "post"
      ]_vars

\* The first item was dequeued max_pending_duration after the last flush
\* time, and it is in the buffer with no POST made.
C22_Witness ==
    /\ buffer_size > 0
    /\ pc = "top"
    /\ count = 1
    /\ Len(dequeued) = 1
    /\ loop_time - last >= MAX_PENDING
    /\ posts = << >>
    /\ ItemCount(buf) = 1

(***************************************************************************)
(* Shutdown.                                                               *)
(***************************************************************************)
\* The places (POST, line) where the termination marker's line is.
MarkerPlaces ==
    UNION {LET items == Items(posts[k].body)
           IN  {<<k, j>> : j \in {i \in 1..Len(items) : items[i] = MarkerLine}}
           : k \in 1..Len(posts)}

\* C23: when the buffer is empty at the moment the shutdown signal is
\* dequeued the consumer makes no POST, builds no termination marker and
\* exits; the marker's line is in at most one POST, and then it is the last
\* line of the last POST.
C23_EmptyShutdownSilent ==
    /\ term_buf = Some(<< >>) =>
          /\ pc = "done"
          /\ buf = << >>
          /\ \A k \in 1..Len(posts) : posts[k].kind = "next"
          /\ MarkerPlaces = {}
    /\ LET places == MarkerPlaces
       IN  /\ Cardinality(places) <= 1
           /\ \A p \in places :
                 /\ p[1] = Len(posts)
                 /\ p[2] = ItemCount(posts[p[1]].body)
                 /\ posts[p[1]].kind # "next"

\* The signal was dequeued with an empty buffer after an earlier flush: the
\* thread is gone and the flush is the only POST.
C23_Witness ==
    /\ term_buf = Some(<< >>)
    /\ pc = "done"
    /\ Len(posts) = 1
    /\ Len(dequeued) >= 1

\* C24: once the consumer has dequeued a shutdown signal it terminates and
\* never receives again: it has exited, or it is in the one POST of the
\* shutdown, whose return can always be taken and is its exit; from the
\* signal on nothing is dequeued, the queue only grows, and the thread is
\* never back at the top of its loop or in recv.
C24_TerminatesAfterSignal ==
    [][ term_buf # None =>
           /\ pc \in {"post", "done"}
           /\ pc = "post" => ENABLED PostReturn
           /\ (pc = "post" /\ pc' # "post") => pc' = "done"
           /\ pc = "done" => (pc' = "done" /\ posts' = posts /\ buf' = buf)
           /\ pc' \notin {"top", "recv"}
           /\ dequeued' = dequeued
           /\ Len(queue') >= Len(queue)
           /\ SubSeq(queue', 1, Len(queue)) = queue
           /\ term_buf' = term_buf
      ]_vars

\* The thread has exited after a signal, and a measurement accepted behind
\* the signal is still in the queue.
C24_Witness ==
    /\ term_buf # None
    /\ pc = "done"
    /\ \E k \in 1..Len(queue) : queue[k].m # None /\ Occurrences(dequeued, queue[k].id) = 0

\* C25: the second, defensive flush of the shutdown never happens: the marker
\* run through `next` with prev = buffer_size always takes the sending arm,
\* which clears the buffer, so the handling of a shutdown signal makes at
\* most one POST and leaves the buffer empty.
C25_NoDefensiveFlush ==
    /\ \A k \in 1..Len(posts) : posts[k].kind # "defensive"
    /\ post_kind # "defensive"
    /\ Cardinality({k \in 1..Len(posts) : posts[k].kind = "term"}) <= 1
    /\ (term_buf # None /\ pc = "done") => buf = << >>
    /\ \A lt \in 0..MaxClock, la \in 0..MaxClock : next_arm(buffer_size, lt, la) = 3

\* The thread has exited after a shutdown with lines remaining: one POST was
\* made for it.
C25_Witness ==
    /\ pc = "done"
    /\ term_buf # None
    /\ Len(term_buf[1]) > 0
    /\ Cardinality({k \in 1..Len(posts) : posts[k].kind = "term"}) = 1
    /\ buf = << >>

(***************************************************************************)
(* One POST at a time.                                                     *)
(***************************************************************************)
\* A POST has been started and has not returned.
InFlight == post_kind # "none"

\* C26: at most one POST is in flight at any time: while one is, the consumer
\* thread is inside the call, it dequeues nothing, appends nothing to the
\* buffer and starts no other POST, and the POST in flight is the last one
\* issued, with the buffer as its body; producers can still send, and what
\* they send is added to the queue.
C26_OnePostInFlight ==
    [][ InFlight =>
           /\ pc = "post"
           /\ posts # << >>
           /\ posts[Len(posts)].body = buf
           /\ InFlight' =>
                 /\ dequeued' = dequeued
                 /\ buf' = buf
                 /\ posts' = posts
                 /\ Len(queue') >= Len(queue)
           /\ (handles["Live"] > 0 /\ Len(sendLog) < MaxSends) =>
                 ENABLED (\E m \in Measurements(Len(sendLog) + 1) : InfluxWriter_send(m))
      ]_vars

\* A POST is in flight with one measurement dequeued, and a second one, sent
\* and accepted, waits in the queue.
C26_Witness ==
    /\ InFlight
    /\ pc = "post"
    /\ Len(dequeued) = 1
    /\ Len(sendLog) = 2
    /\ sendLog[2].ok
    /\ Len(queue) = 1
    /\ queue[1].id = 2

(***************************************************************************)
(* Handles and the one thread.                                             *)
(***************************************************************************)
\* C27: over any sequence of clones and releases of the handles of a writer,
\* the releases enqueue the shutdown signal at most once: at most one handle
\* ever gets the JoinHandle out of the Arc.
C27_SignalOnceByRelease ==
    /\ drop_signals <= 1
    /\ handles["Unwrapped"] + handles["Joining"] <= 1
    /\ handles["Unwrapped"] + handles["Joining"] = 1 =>
          (handles["Live"] = 0 /\ handles["Shared"] = 0 /\ strong = 0)

\* Two handles were made and both are released; the second release sent the
\* one signal.
C27_Witness ==
    /\ Created = MaxHandles
    /\ AllReleased
    /\ drop_signals = 1

\* C28: a writer has exactly one consumer thread for its whole life: a clone
\* adds one to the share count and one Sender and starts no thread, it leaves
\* the queue and the consumer as they are, and the measurements of all
\* handles are queued in the one channel that thread receives from.
C28_OneConsumerThread ==
    [][ /\ threads = 1
        /\ threads' = 1
        /\ Created' > Created =>
              /\ Created' = Created + 1
              /\ strong' = strong + 1
              /\ senders' = senders + 1
              /\ UNCHANGED <<queue, consumer_vars, sendLog, nsignals, drop_signals>>
        /\ Len(sendLog') > Len(sendLog) =>
              (sendLog'[Len(sendLog')].ok => Len(queue') = Len(queue) + 1)
        /\ Len(dequeued') > Len(dequeued) =>
              (Len(queue') = Len(queue) - 1 /\ pc = "recv")
      ]_vars

\* Two live handles of one writer, two measurements sent while both were
\* there and both received by the one thread.
C28_Witness ==
    /\ Created = 2
    /\ handles["Live"] = 2
    /\ threads = 1
    /\ Len(sendLog) = 2
    /\ dequeued = <<1, 2>>

(***************************************************************************)
(* A receive that returns no message.                                      *)
(***************************************************************************)
\* rx.recv() is about to return Err: the `_` arm will run.
NoMessage == pc = "recv" /\ queue = << >> /\ senders = 0

\* C29: a receive that returns without a message makes the consumer sleep
\* and retry, with the buffer, pending_count and last_flush_time unchanged
\* and no POST, and the consumer still terminates later.
\* Violated: the receive returns without a message only when every Sender is
\* gone, and then no shutdown signal can ever come: the thread retries for
\* ever.
C29_NoMessageRetry ==
    /\ [][ (NoMessage /\ pc' # pc) =>
              (pc' = "top" /\ UNCHANGED <<buf, count, last, posts, queue, dequeued>>) ]_vars
    /\ NoMessage ~> (pc = "done")

(***************************************************************************)
(* Tag values.                                                             *)
(***************************************************************************)
\* s with a backslash put before every space and every comma.
RECURSIVE BackslashEscaped(_)
BackslashEscaped(s) ==
    IF s = << >> THEN << >>
    ELSE (IF Head(s) \in {" ", ","} THEN <<BACKSLASH, Head(s)>> ELSE <<Head(s)>>)
         \o BackslashEscaped(Tail(s))

\* t without the backslashes that stand before a space or a comma.
RECURSIVE BackslashesRemoved(_)
BackslashesRemoved(t) ==
    IF t = << >> THEN << >>
    ELSE IF Head(t) = BACKSLASH /\ Len(t) >= 2 /\ t[2] \in {" ", ","}
         THEN <<t[2]>> \o BackslashesRemoved(SubSeq(t, 3, Len(t)))
         ELSE <<Head(t)>> \o BackslashesRemoved(Tail(t))

\* C30: in an encoded tag value every space is backslash-space and every
\* comma backslash-comma, double quotes and all other characters are copied,
\* and taking the inserted backslashes out gives the value back;
\* serialize_owned writes the value of a tag that way.
C30_TagValueEscaping ==
    /\ enc_op = "escape" =>
          /\ enc_out = BackslashEscaped(enc_in)
          /\ BackslashesRemoved(enc_out) = enc_in
          /\ Len(enc_out) = Len(enc_in)
                + Cardinality({i \in 1..Len(enc_in) : enc_in[i] \in {" ", ","}})
    /\ (enc_op = "serialize_owned" /\ Len(enc_in.tags) = 1 /\ enc_in.fields = << >>
          /\ enc_in.timestamp = None) =>
          enc_out = SelectSeq(enc_in.key, IsIdentifierChar) \o <<",">>
                    \o SelectSeq(enc_in.tags[1][1], IsIdentifierChar) \o <<"=">>
                    \o BackslashEscaped(enc_in.tags[1][2])

\* escape was called on a text with a space, a double quote and a comma.
C30_Witness ==
    /\ enc_op = "escape"
    /\ enc_in = <<" ", QUOTE, ",">>
    /\ enc_out = <<BACKSLASH, " ", QUOTE, BACKSLASH, ",">>

(***************************************************************************)
(* Field literals.                                                         *)
(***************************************************************************)
HexVal(c) == CHOOSE n \in 0..15 : HexDigit(n) = c

HexChars == {HexDigit(n) : n \in 0..15}

NotHyphen(c) == c # "-"

\* The text t is the decimal form of the integer i: an optional minus sign,
\* then digits without a leading zero that read back as the magnitude.
IsDecimalOf(t, i) ==
    LET ds == IF i < 0 THEN Tail(t) ELSE t
    IN  /\ i < 0 => (t # << >> /\ Head(t) = "-")
        /\ Len(ds) >= 1
        /\ \A k \in 1..Len(ds) : ds[k] \in DigitChars
        /\ Len(ds) > 1 => ds[1] # "0"
        /\ parse_digits(ds, 0) = (IF i < 0 THEN -i ELSE i)

\* The text t is the canonical form of the UUID with bytes u.
IsCanonicalUuid(t, u) ==
    /\ Len(t) = 36
    /\ \A k \in 1..36 : IF k \in {9, 14, 19, 24} THEN t[k] = "-" ELSE t[k] \in HexChars
    /\ LET h == SelectSeq(t, NotHyphen)
       IN  u = [k \in 1..16 |-> HexVal(h[2 * k - 1]) * 16 + HexVal(h[2 * k])]

\* C31: the add_field closure writes the separator, the key and `=`, and
\* then the literal of the value: an Integer as its decimal digits followed
\* by `i`, a Boolean as `t` or `f`, a String as the double-quoted escaped
\* string, a UUID as its canonical text in double quotes; the literal is the
\* same whatever the line so far, the key and the position of the field.
C31_FieldLiterals ==
    enc_op = "add_field" =>
        LET v == enc_in.value
            head == enc_in.line \o (IF enc_in.is_first THEN <<" ">> ELSE <<",">>)
                    \o escape_tag(enc_in.key) \o <<"=">>
            lit == SubSeq(enc_out, Len(head) + 1, Len(enc_out))
        IN  /\ SubSeq(enc_out, 1, Len(head)) = head
            /\ lit = SubSeq(add_field_line(<< >>, << >>, v, TRUE), 3, Len(lit) + 2)
            /\ v.variant = "Integer" =>
                  /\ lit # << >> /\ lit[Len(lit)] = "i"
                  /\ IsDecimalOf(SubSeq(lit, 1, Len(lit) - 1), v.i)
            /\ v.variant = "Boolean" => lit = (IF v.b THEN <<"t">> ELSE <<"f">>)
            /\ v.variant = "String" =>
                  /\ lit = as_string(v.s)
                  /\ Len(lit) >= 2 /\ lit[1] = QUOTE /\ lit[Len(lit)] = QUOTE
            /\ v.variant = "Uuid" =>
                  /\ Len(lit) = 38 /\ lit[1] = QUOTE /\ lit[38] = QUOTE
                  /\ IsCanonicalUuid(SubSeq(lit, 2, 37), v.u)

\* The closure wrote a UUID as the first field of a line.
C31_Witness ==
    /\ enc_op = "add_field"
    /\ enc_in.value = Uuid(<<18, 62, 69, 103, 232, 155, 18, 211, 164, 86, 66, 102, 20, 23, 64, 0>>)
    /\ enc_in.line = <<"m">>
    /\ enc_in.is_first
    /\ enc_out = <<"m", " ", "c", "=", QUOTE,
                   "1", "2", "3", "e", "4", "5", "6", "7", "-", "e", "8", "9", "b", "-",
                   "1", "2", "d", "3", "-", "a", "4", "5", "6", "-",
                   "4", "2", "6", "6", "1", "4", "1", "7", "4", "0", "0", "0", QUOTE>>

(***************************************************************************)
(* Insertion order.                                                        *)
(***************************************************************************)
IsTagCall(c) == c.kind = "add_tag"

IsFieldCall(c) == c.kind = "add_field"

\* The pairs the calls of one kind were made with, in the order of the calls.
TagsCalled(calls) ==
    LET t == SelectSeq(calls, IsTagCall) IN [i \in 1..Len(t) |-> <<t[i].key, t[i].tag>>]

FieldsCalled(calls) ==
    LET f == SelectSeq(calls, IsFieldCall) IN [i \in 1..Len(f) |-> <<f[i].key, f[i].field>>]

\* The value of the earliest pair with the key, if there is one.
FirstWith(pairs, key) ==
    LET at == {i \in 1..Len(pairs) : pairs[i][1] = key}
    IN  IF at = {} THEN None
        ELSE Some(pairs[CHOOSE i \in at : \A j \in at : i <= j][2])

\* C32: after a chain of add_tag and add_field calls the measurement's tags
\* and fields are the pairs of the calls in the order of the calls, one entry
\* per call also when a key repeats; get_tag and get_field return the value
\* of the first entry with the key; serialize_owned writes tags and fields in
\* that order.
C32_InsertionOrder ==
    enc_op = "add_calls" =>
        LET tags == TagsCalled(enc_in)
            fields == FieldsCalled(enc_in)
        IN  /\ enc_out.m.tags = tags
            /\ enc_out.m.fields = fields
            /\ Len(enc_out.m.tags) + Len(enc_out.m.fields) = Len(enc_in)
            /\ \A k \in BuildKeys :
                  /\ enc_out.get_tag[k] = FirstWith(tags, k)
                  /\ enc_out.get_field[k] = FirstWith(fields, k)
            /\ enc_out.line =
                  ExpectedLine(escape_tag, CalledLiteral,
                               [key |-> <<"t", "e", "s", "t">>, timestamp |-> None,
                                fields |-> fields, tags |-> tags])
            /\ enc_in = SeparatedTest =>
                  enc_out.line = <<"t", "e", "s", "t", ",", "a", "=", "o", "n", "e", ",",
                                   "b", "=", "t", "w", "o", " ", "x", "=", "1", ".", "1", ",",
                                   "y", "=", "-", "1", ".", "1">>

\* After one tag a key was added twice as a field, with different values:
\* both entries are kept in the order of the calls, and get_field returns
\* the first.
C32_Witness ==
    /\ enc_op = "add_calls"
    /\ enc_out.m.fields = <<(<<(<<"a">>), Boolean(TRUE)>>), (<<(<<"a">>), Integer(1)>>)>>
    /\ enc_out.get_field[<<"a">>] = Some(Boolean(TRUE))
    /\ Len(enc_out.m.tags) = 1
    /\ enc_out.line = <<"t", "e", "s", "t", ",", "a", "=", "y", " ",
                        "a", "=", "t", ",", "a", "=", "1", "i">>

(***************************************************************************)
(* The encoder appends.                                                    *)
(***************************************************************************)
\* How many newlines a text has.
Newlines(t) == Cardinality({i \in 1..Len(t) : t[i] = NL})

RECURSIVE SumOver(_, _)
SumOver(f, n) == IF n = 0 THEN 0 ELSE f[n] + SumOver(f, n - 1)

\* The newlines in the texts of a measurement: its key, its tags' keys and
\* values, its fields' keys and its String values.
NewlinesOf(m) ==
    Newlines(m.key)
    + SumOver([i \in 1..Len(m.tags) |-> Newlines(m.tags[i][1]) + Newlines(m.tags[i][2])],
              Len(m.tags))
    + SumOver([i \in 1..Len(m.fields) |->
                  Newlines(m.fields[i][1]) + Newlines(m.fields[i][2].s)], Len(m.fields))

\* C33: serialize_owned(m, buf) leaves what buf held as a prefix of what it
\* holds afterwards; what it appends does not depend on what buf held, and
\* has no newline but those of m's own texts, so none between or after the
\* parts of the line.
C33_EncoderAppends ==
    enc_op = "serialize_owned_append" =>
        LET before == enc_in.line
            fragment == SubSeq(enc_out, Len(before) + 1, Len(enc_out))
        IN  /\ Len(enc_out) >= Len(before)
            /\ SubSeq(enc_out, 1, Len(before)) = before
            /\ fragment = serialize_owned(enc_in.m, << >>)
            /\ Newlines(fragment) = NewlinesOf(enc_in.m)
            /\ NewlinesOf(enc_in.m) = 0 => \A i \in 1..Len(fragment) : fragment[i] # NL

\* A measurement with a tag, a field and a timestamp was appended to a
\* String that ended with a newline.
C33_Witness ==
    /\ enc_op = "serialize_owned_append"
    /\ enc_in.line = <<"p", " ", "q", NL>>
    /\ enc_in.m.key = <<"m">>
    /\ enc_out = <<"p", " ", "q", NL, "m", ",", "a", "=", "b", " ", "c", "=", "1", "i",
                   " ", "1", "2">>

(***************************************************************************)
(* The buffer and its count.                                               *)
(***************************************************************************)
\* The consumer is between two iterations of its loop: at the top of the
\* loop or waiting in rx.recv().
BetweenIterations == pc \in {"top", "recv"}

\* C34: between two iterations of the loop, count is the number of lines of
\* the buffer (the texts between its newlines, none of them empty), and the
\* buffer is empty exactly when count is 0.
C34_CountIsLines ==
    BetweenIterations =>
        /\ buf = << >> <=> count = 0
        /\ has_remaining(buf) <=> count > 0
        /\ ItemCount(buf) = count
        /\ count > 0 => (Len(Lines(buf)) = count /\ Newlines(buf) = count - 1)

\* Two lines are in the buffer and the consumer waits for the next message.
C34_Witness ==
    /\ pc = "recv"
    /\ count = 2
    /\ Newlines(buf) = 1
    /\ posts = << >>

(***************************************************************************)
(* The shape of a POST body.                                               *)
(***************************************************************************)
\* The step issues a POST.
IssuesPost == Len(posts') = Len(posts) + 1

\* C35: with buffer_size >= 1 the body of every POST has at least two lines,
\* one newline between two lines, and no newline at its start or end: no
\* text between two newlines, or between a newline and an end of the body,
\* is empty.
C35_BodyShape ==
    [][ (IssuesPost /\ buffer_size >= 1) =>
           LET body == posts'[Len(posts')].body
               lines == Lines(body)
           IN  /\ Len(lines) >= 2
               /\ \A i \in 1..Len(lines) : lines[i] # << >>
               /\ body[1] # NL /\ body[Len(body)] # NL
               /\ \A i \in 1..(Len(body) - 1) : ~(body[i] = NL /\ body[i + 1] = NL)
               /\ Newlines(body) = Len(lines) - 1
               /\ body = buf' ]_vars

\* A POST of three lines was issued with buffer_size 2.
C35_Witness ==
    /\ buffer_size = 2
    /\ Len(posts) = 1
    /\ Newlines(posts[1].body) = 2
    /\ pc = "post"

(***************************************************************************)
(* Fields and timestamps of the lines sent.                                *)
(***************************************************************************)
\* The texts between the spaces of a line.
Words(l) ==
    LET IsSpace(i) == l[i] = " "
        spaces == SelectSeq([i \in 1..Len(l) |-> i], IsSpace)
        cuts == <<0>> \o spaces \o <<Len(l) + 1>>
    IN  [k \in 1..(Len(cuts) - 1) |-> SubSeq(l, cuts[k] + 1, cuts[k + 1] - 1)]

\* The text is `key=literal`, neither of them empty, possibly followed by
\* more fields.
HasField(w) == \E i \in 2..(Len(w) - 1) : w[i] = "=" /\ \A j \in 1..(i - 1) : w[j] # "="

IsDigits(w) == w # << >> /\ \A i \in 1..Len(w) : w[i] \in DigitChars

\* C36: every line of a POST body has a field section with at least one
\* field; the line of a measurement a producer submitted ends with a
\* timestamp, its own or the stamp of its dequeue; the line of the
\* termination marker is `wtrterm n=1i`, without a timestamp.  (The lines,
\* the words of a line and its measurement are bound by \A over a set of one
\* element, so that each is computed once.)
C36_FieldsAndTimestamps ==
    [][ IssuesPost =>
           \A lines \in {Items(posts'[Len(posts')].body)} :
               \A i \in 1..Len(lines) :
                   \A w \in {Words(lines[i])} :
                       /\ Len(w) >= 2
                       /\ HasField(w[2])
                       /\ IF posts'[Len(posts')].kind # "next" /\ i = Len(lines)
                          THEN /\ lines[i] = <<"w", "t", "r", "t", "e", "r", "m", " ",
                                                "n", "=", "1", "i">>
                               /\ Len(w) = 2
                          ELSE /\ Len(w) = 3
                               /\ IsDigits(w[3])
                               /\ \A m \in {Submitted(LineId(lines[i]))} :
                                      m.timestamp # None => w[3] = to_string(m.timestamp[1]) ]_vars

\* The POST of a shutdown: a measurement submitted without fields and
\* without timestamp, then the termination marker.
C36_Witness ==
    /\ Len(posts) = 1
    /\ posts[1].kind = "term"
    /\ Len(Items(posts[1].body)) = 2
    /\ Submitted(LineId(Items(posts[1].body)[1])).timestamp = None
    /\ Submitted(LineId(Items(posts[1].body)[1])).fields = << >>
    /\ Len(Words(Items(posts[1].body)[1])) = 3
    /\ Len(Words(Items(posts[1].body)[2])) = 2

(***************************************************************************)
(* The two times of the flush policy.                                      *)
(***************************************************************************)
\* C37: the time the loop sampled is never earlier than the time of the
\* last flush, so loop_time - last is never negative; last is only ever
\* given the loop's sampled time, and the sampled time and the clock never
\* go back.
C37_ElapsedNeverNegative ==
    /\ [](last <= loop_time /\ loop_time <= clock)
    /\ [][ /\ last' # last => (last' = loop_time \/ pc = "init")
           /\ loop_time' >= loop_time
           /\ clock' >= clock ]_vars

\* After a flush the loop has sampled a later time: the elapsed time is
\* positive.
C37_Witness ==
    /\ pc = "recv"
    /\ Len(posts) = 1
    /\ last < loop_time

(***************************************************************************)
(* The history of warnings.                                                *)
(***************************************************************************)
\* The step in which the worker receives a warning.
WorkerReceives == Len(warnings_rx') < Len(warnings_rx)

\* C38: the history never holds more than N_WARNINGS records; it holds the
\* most recently received warnings other than Log and Terminate, the newest
\* first and none left out; a Log is sent on the socket and leaves the
\* history as it was; after Terminate the worker has stopped and receives
\* nothing more.
C38_HistoryBounded ==
    /\ [](/\ Len(warnings) <= N_WARNINGS
          /\ \A i \in 1..Len(warnings) :
                /\ warnings[i].kind \notin {"Log", "Terminate"}
                /\ warnings[i].n = warnings[1].n - (i - 1)
          /\ (warnings # << >> /\ Len(warnings) < N_WARNINGS) =>
                warnings[Len(warnings)].n = 1)
    /\ [][ /\ WorkerReceives =>
                LET msg == Head(warnings_rx)
                IN  /\ warnings_pc = "loop"
                    /\ msg.kind = "Log" =>
                          (warnings' = warnings /\ socket' = Some(msg) /\ warnings_pc' = "loop")
                    /\ msg.kind = "Terminate" =>
                          (warnings' = warnings /\ socket' = socket /\ warnings_pc' = "done")
                    /\ msg.kind \notin {"Log", "Terminate"} =>
                          /\ socket' = Some(msg)
                          /\ warnings_pc' = "loop"
                          /\ warnings'[1] = msg
                          /\ msg.n = (IF warnings = << >> THEN 0 ELSE warnings[1].n) + 1
                          /\ Len(warnings') = (IF Len(warnings) < N_WARNINGS
                                               THEN Len(warnings) + 1 ELSE N_WARNINGS)
           /\ warnings_pc = "done" =>
                UNCHANGED <<warnings, warnings_rx, warnings_pc, socket>> ]_vars

\* More than N_WARNINGS warnings and a Log were received before Terminate:
\* the history holds the last N_WARNINGS of them, the newest at the front,
\* and what was queued behind Terminate stays in the channel.
C38_Witness ==
    /\ warnings_pc = "done"
    /\ Len(warnings) = N_WARNINGS
    /\ warnings[1] = Warning("Notice", MaxWarnings)
    /\ warnings[N_WARNINGS] = Warning("Notice", MaxWarnings - N_WARNINGS + 1)
    /\ warnings_sent.log = 1
    /\ socket # None
    /\ warnings_rx # << >>

(***************************************************************************)
(* Which keys of a log record become tags.                                 *)
(***************************************************************************)
IsStringCall(c) == c.v.type = "str"

\* The call makes a tag: add_tag or TagBuilder, with a reserved key.
MakesTag(c) == c.via \in {"add_tag", "TagBuilder"} /\ c.key \in ReservedTagNames

\* The call makes a field: every other call, but a none emitted through
\* MeasurementRecord's own serializer, which is dropped.
MakesField(c) == ~MakesTag(c) /\ ~(c.via = "MeasurementRecord" /\ c.v.type = "none")

MakesStringTag(c) == MakesTag(c) /\ IsStringCall(c)

\* The field a call makes.
FieldMade(c) ==
    IF c.via = "MeasurementRecord"
    THEN CASE c.v.type = "str" -> String(c.v.s)
           [] c.v.type = "i64" -> Integer(c.v.i)
           [] c.v.type = "bool" -> Boolean(c.v.b)
    ELSE String(Display(c.v))

\* C39 as stated: the tags of the record have reserved keys only, and they
\* are made of the string values only, every other value being a field.
\* Violated: TagBuilder makes the tag thread=7 of the integer 7.
C39_TagEligibility ==
    enc_op = "adapter_calls" =>
        /\ \A i \in 1..Len(enc_out.tags) : enc_out.tags[i][1] \in ReservedTagNames
        /\ Len(enc_out.tags) = Len(SelectSeq(enc_in, MakesStringTag))

\* C39 amended: the tags of the record have reserved keys only; add_tag and
\* TagBuilder make a tag of every value under a reserved key, of a value
\* that is not a string by its Display text; every other key passed to
\* add_tag or TagBuilder becomes a String field, and MeasurementRecord's own
\* serializer makes a typed field of everything but a none.
C39_ReservedKeysOnly ==
    enc_op = "adapter_calls" =>
        LET t == SelectSeq(enc_in, MakesTag)
            f == SelectSeq(enc_in, MakesField)
        IN  /\ \A i \in 1..Len(enc_out.tags) : enc_out.tags[i][1] \in ReservedTagNames
            /\ enc_out.tags = [i \in 1..Len(t) |-> <<t[i].key, Display(t[i].v)>>]
            /\ enc_out.fields = [i \in 1..Len(f) |-> <<f[i].key, FieldMade(f[i])>>]

\* add_tag was called with a key that is not reserved, and TagBuilder was
\* given a string under a reserved key: one field, one tag.
C39_Witness ==
    /\ enc_op = "adapter_calls"
    /\ Len(enc_in) = 2
    /\ enc_in[1].via = "add_tag" /\ enc_in[1].key = "price"
    /\ enc_in[2].via = "TagBuilder" /\ enc_in[2].key = "ticker" /\ enc_in[2].v.type = "str"
    /\ enc_out.tags = <<(<<"ticker", (<<"x">>)>>)>>
    /\ enc_out.fields = <<(<<"price", String(<<"x">>)>>)>>

====
